---- MODULE Spec2Model ----
(***************************************************************************)
(* A model of the sudidakt deduction engine: the candidate-tracking        *)
(* PossibleValues, the append-only journals and their cursors, the five    *)
(* analyses of the Analyzer, the Placer and the Solver's loops.            *)
(***************************************************************************)
EXTENDS Integers, Sequences, FiniteSets, TLC

VARIABLES
    grid,           \* Solver.grid: [solved, cells], cells[c] = 0 for None
    analyzer,       \* Solver.analyzer: [possible_values, placements_cursors, refinements_cursors]
    placer,         \* Solver.placer: [possible_values, refinements] (refinements: its cursor position)
    placements,     \* the shared storage of the placement journal
    refinements,    \* the shared storage of the refinement journal
    panicked,       \* "" or the message of the assertion that aborted the program
    delivered,      \* history: the events each cursor's handler has been invoked with
    pc,             \* the position inside the running Solver operation, <<>> when none runs
    entry,          \* history: the Solver's state when the running (or last) operation was called
    last,           \* the last call that returned, with its arguments and result
    pv,             \* a stand-alone PossibleValues instance (specification SpecPV)
    tally,          \* a stand-alone DigitCounter instance (specification SpecCounter)
    csv             \* the iterator parse_csv returned and what it yielded (specification SpecCsv)

solverVars == <<grid, analyzer, placer, placements, refinements, panicked, delivered, pc, entry>>
vars == <<grid, analyzer, placer, placements, refinements, panicked, delivered, pc, entry, last, pv, tally, csv>>

----------------------------------------------------------------------------
(* model/dimension.rs, solver/analysis.rs *)

SQUARE_DIMENSION == 3
DIMENSION == SQUARE_DIMENSION * SQUARE_DIMENSION
NUMBER_CELLS == DIMENSION * DIMENSION
NUMBER_GROUPS == 3 * DIMENSION

\* Option::None of a Digit or of a CellIndex result
None == 0
NoCell == 0 - 1

Digits == 1 .. DIMENSION
CellIndexes == 0 .. (NUMBER_CELLS - 1)
GroupIndexes == 0 .. (NUMBER_GROUPS - 1)

\* ALL_ANALYSES, in order; cursor_index(analysis) is its discriminant
ALL_ANALYSES == <<"CellExclusion", "GroupExclusion", "GroupInclusion", "GroupOverlap", "GroupSubsetInclusion">>
NUMBER_ANALYSIS == Len(ALL_ANALYSES)

Analyzer_cursor_index(analysis) ==
    CHOOSE i \in 0 .. (NUMBER_ANALYSIS - 1) : ALL_ANALYSES[i + 1] = analysis

----------------------------------------------------------------------------
(* Generic helpers: loops of the code become folds over a sequence. *)

\* Op(value), with `value` computed once, before Op's body starts: the
\* sequencing of `let value = ...;` in the code.
LetIn(value, Op(_)) == CHOOSE result \in {Op(v) : v \in {value}} : TRUE

\* acc after the iterations lo, lo+1, ..., hi of a loop over seq, in that
\* order: the first half of the range, then the second half from its result.
RECURSIVE FoldRange(_, _, _, _, _)
FoldRange(Op(_, _), acc, seq, lo, hi) ==
    CHOOSE result \in {IF lo > hi THEN a
                       ELSE IF lo = hi THEN Op(a, s[lo])
                       ELSE FoldRange(Op, FoldRange(Op, a, s, lo, (lo + hi) \div 2),
                                      s, (lo + hi) \div 2 + 1, hi) :
                        a \in {acc}, s \in {seq}} : TRUE

\* acc after the iterations i, i+1, ... of a loop over seq. Each iteration's
\* result is computed before the next one starts.
Fold(Op(_, _), acc, seq, i) ==
    CHOOSE result \in {FoldRange(Op, a, s, i, Len(s)) : a \in {acc}, s \in {seq}} : TRUE

\* The ascending iteration of a bit-set (DigitSetIterator, GroupSetIterator).
Ascending(set) ==
    [i \in 1 .. Cardinality(set) |-> CHOOSE x \in set : Cardinality({y \in set : y < x}) = i - 1]

IsPrefix(a, b) == Len(a) <= Len(b) /\ \A i \in 1 .. Len(a) : a[i] = b[i]

----------------------------------------------------------------------------
(* model/index.rs *)

CellIndex_from_coordinates(row, column) == DIMENSION * row + column
CellIndex_column(cell) == cell % DIMENSION
CellIndex_row(cell) == cell \div DIMENSION
SquareIndex_from_coordinates(row, column) ==
    SQUARE_DIMENSION * (row \div SQUARE_DIMENSION) + (column \div SQUARE_DIMENSION)
CellIndex_square(cell) == SquareIndex_from_coordinates(CellIndex_row(cell), CellIndex_column(cell))
SquareIndex_columns(square) ==
    LET start == SQUARE_DIMENSION * (square % SQUARE_DIMENSION)
    IN [i \in 1 .. SQUARE_DIMENSION |-> start + i - 1]
SquareIndex_rows(square) ==
    LET start == SQUARE_DIMENSION * (square \div SQUARE_DIMENSION)
    IN [i \in 1 .. SQUARE_DIMENSION |-> start + i - 1]

----------------------------------------------------------------------------
(* model/group.rs: a Group is a tagged index *)

Column(i) == [kind |-> "Column", index |-> i]
Row(i) == [kind |-> "Row", index |-> i]
Square(i) == [kind |-> "Square", index |-> i]

Group_column(cell) == Column(CellIndex_column(cell))
Group_row(cell) == Row(CellIndex_row(cell))
Group_square(cell) == Square(CellIndex_square(cell))

Group_groups(cell) == <<Group_column(cell), Group_row(cell), Group_square(cell)>>

Group_index(group) ==
    CASE group.kind = "Column" -> group.index
      [] group.kind = "Row" -> group.index + DIMENSION
      [] group.kind = "Square" -> group.index + 2 * DIMENSION

Group_new(index) ==
    IF index < DIMENSION THEN Column(index)
    ELSE IF index < 2 * DIMENSION THEN Row(index - DIMENSION)
    ELSE Square(index - 2 * DIMENSION)

Group_contains(group, cell) ==
    CASE group.kind = "Column" -> group.index = CellIndex_column(cell)
      [] group.kind = "Row" -> group.index = CellIndex_row(cell)
      [] group.kind = "Square" -> group.index = CellIndex_square(cell)

Group_cells(group) ==
    CASE group.kind = "Column" ->
            [i \in 1 .. DIMENSION |-> CellIndex_from_coordinates(i - 1, group.index)]
      [] group.kind = "Row" ->
            [i \in 1 .. DIMENSION |-> CellIndex_from_coordinates(group.index, i - 1)]
      [] group.kind = "Square" ->
            [i \in 1 .. DIMENSION |->
                CellIndex_from_coordinates(
                    SquareIndex_rows(group.index)[((i - 1) \div SQUARE_DIMENSION) + 1],
                    SquareIndex_columns(group.index)[((i - 1) % SQUARE_DIMENSION) + 1])]

Group_other_groups(group, cell) ==
    CASE group.kind = "Column" -> <<Group_row(cell), Group_square(cell)>>
      [] group.kind = "Row" -> <<Group_column(cell), Group_square(cell)>>
      [] group.kind = "Square" -> <<Group_column(cell), Group_row(cell)>>

AllGroups == {Group_new(i) : i \in GroupIndexes}

----------------------------------------------------------------------------
(* model/digit_counter.rs *)

DigitCounter_full == [d \in Digits |-> DIMENSION]

\* decrement: asserts the count is not 0
DigitCounter_decrement(counter, digit) ==
    IF counter[digit] = 0
    THEN [counter |-> counter, panic |-> "Cannot decrement counter, it is already 0"]
    ELSE [counter |-> [counter EXCEPT ![digit] = @ - 1], panic |-> ""]

\* Default: every count is 0
DigitCounter_default == [d \in Digits |-> 0]

DigitCounter_count(counter, digit) == counter[digit]

\* increment: asserts the count is not DIMENSION - 1
DigitCounter_increment(counter, digit) ==
    IF counter[digit] = DIMENSION - 1
    THEN [counter |-> counter, panic |-> "Cannot increment counter, it is already 8"]
    ELSE [counter |-> [counter EXCEPT ![digit] = @ + 1], panic |-> ""]

----------------------------------------------------------------------------
(* solver/possible_values.rs *)

PossibleValues_group_index(group) ==
    CASE group.kind = "Column" -> group.index
      [] group.kind = "Row" -> DIMENSION + group.index
      [] group.kind = "Square" -> 2 * DIMENSION + group.index

PossibleValues_all ==
    [cells |-> [c \in CellIndexes |-> Digits],
     group_counters |-> [g \in GroupIndexes |-> DigitCounter_full]]

PossibleValues_of_cell(values, cell) == values.cells[cell]
PossibleValues_of_group(values, group) == values.group_counters[PossibleValues_group_index(group)]

\* The loop of remove_possibility over Group::groups(cell), after the digit
\* has left the cell: [pv, ret, panic]. A failed assertion of decrement stops
\* it where it stands.
DecrementStep(acc, index, digit, dec) ==
    [acc EXCEPT !.pv.group_counters[index] = dec.counter, !.panic = dec.panic]

\* A variant that leaves the counters of the square alone
DecrementGroups_SkipSquare(values, cell, digit) ==
    Fold(LAMBDA acc, group :
            IF acc.panic # "" \/ group.kind = "Square" THEN acc
            ELSE DecrementStep(acc, PossibleValues_group_index(group), digit,
                    DigitCounter_decrement(PossibleValues_of_group(acc.pv, group), digit)),
         [pv |-> values, ret |-> digit, panic |-> ""], Group_groups(cell), 1)

DecrementGroups(values, cell, digit) ==
    Fold(LAMBDA acc, group :
            IF acc.panic # "" THEN acc
            ELSE DecrementStep(acc, PossibleValues_group_index(group), digit,
                    DigitCounter_decrement(PossibleValues_of_group(acc.pv, group), digit)),
         [pv |-> values, ret |-> digit, panic |-> ""], Group_groups(cell), 1)

\* A variant that answers Some(digit) whether or not the digit was there
PossibleValues_remove_possibility_AlwaysSome(values, cell, digit) ==
    IF digit \notin values.cells[cell]
    THEN [pv |-> values, ret |-> digit, panic |-> ""]
    ELSE DecrementGroups([values EXCEPT !.cells[cell] = @ \ {digit}], cell, digit)

\* A variant that flips the digit's bit without looking at it first
PossibleValues_remove_possibility_Toggle(values, cell, digit) ==
    IF digit \notin values.cells[cell]
    THEN [pv |-> [values EXCEPT !.cells[cell] = @ \cup {digit}], ret |-> None, panic |-> ""]
    ELSE DecrementGroups([values EXCEPT !.cells[cell] = @ \ {digit}], cell, digit)

\* remove_possibility: [pv, ret, panic], ret = None when the digit was not a candidate
PossibleValues_remove_possibility(values, cell, digit) ==
    IF digit \notin values.cells[cell]
    THEN [pv |-> values, ret |-> None, panic |-> ""]
    ELSE DecrementGroups([values EXCEPT !.cells[cell] = @ \ {digit}], cell, digit)

\* One iteration of the loop of resolve: rem is what remove_possibility gave.
ResolveStep(acc, possibility, rem) ==
    [pv |-> rem.pv, ret |-> acc.ret \cup {possibility}, panic |-> rem.panic]

\* A variant whose loop stops at the digit
PossibleValues_resolve_StopAtDigit(values, cell, digit) ==
    IF digit \notin PossibleValues_of_cell(values, cell)
    THEN [pv |-> values, ret |-> {}, panic |-> "Incoherent request"]
    ELSE Fold(LAMBDA acc, possibility :
                IF acc.panic # "" \/ possibility >= digit THEN acc
                ELSE LetIn(PossibleValues_remove_possibility(acc.pv, cell, possibility),
                           LAMBDA rem : ResolveStep(acc, possibility, rem)),
              [pv |-> values, ret |-> {}, panic |-> ""],
              Ascending(PossibleValues_of_cell(values, cell)), 1)

\* resolve: [pv, ret, panic], ret the set of removed digits
PossibleValues_resolve(values, cell, digit) ==
    IF digit \notin PossibleValues_of_cell(values, cell)
    THEN [pv |-> values, ret |-> {}, panic |-> "Incoherent request"]
    ELSE Fold(LAMBDA acc, possibility :
                IF acc.panic # "" \/ possibility = digit THEN acc
                ELSE LetIn(PossibleValues_remove_possibility(acc.pv, cell, possibility),
                           LAMBDA rem : ResolveStep(acc, possibility, rem)),
              [pv |-> values, ret |-> {}, panic |-> ""],
              Ascending(PossibleValues_of_cell(values, cell)), 1)

----------------------------------------------------------------------------
(* model/grid.rs *)

Grid_default == [solved |-> 0, cells |-> [c \in CellIndexes |-> None]]

Grid_number_solved(g) == g.solved
Grid_get_digit(g, cell) == g.cells[cell]

\* A variant that scans the row before the column
Grid_get_conflicting_RowFirst(g, cell, digit) ==
    Fold(LAMBDA found, group :
            IF found # NoCell THEN found
            ELSE Fold(LAMBDA f, candidate :
                        IF f # NoCell THEN f
                        ELSE IF candidate # cell /\ Grid_get_digit(g, candidate) = digit
                             THEN candidate ELSE NoCell,
                      NoCell, Group_cells(group), 1),
         NoCell, <<Group_row(cell), Group_column(cell), Group_square(cell)>>, 1)

\* get_conflicting: the first cell, scanning Group::groups(cell) and each
\* group's cells in order, that is not `cell` and holds `digit`; NoCell if none
Grid_get_conflicting(g, cell, digit) ==
    Fold(LAMBDA found, group :
            IF found # NoCell THEN found
            ELSE Fold(LAMBDA f, candidate :
                        IF f # NoCell THEN f
                        ELSE IF candidate # cell /\ Grid_get_digit(g, candidate) = digit
                             THEN candidate ELSE NoCell,
                      NoCell, Group_cells(group), 1),
         NoCell, Group_groups(cell), 1)

\* A variant that counts every digit written, whatever the cell held
Grid_set_digit_CountsEveryWrite(g, cell, digit) ==
    LET previous == g.cells[cell]
        count == IF previous # None /\ digit = None THEN g.solved - 1
                 ELSE IF digit # None THEN g.solved + 1
                 ELSE g.solved
    IN [grid |-> [solved |-> count, cells |-> [g.cells EXCEPT ![cell] = digit]],
        previous |-> previous]

\* set_digit: [grid, previous]
Grid_set_digit(g, cell, digit) ==
    LET previous == g.cells[cell]
        count == IF previous # None /\ digit = None THEN g.solved - 1
                 ELSE IF previous = None /\ digit # None THEN g.solved + 1
                 ELSE g.solved
    IN [grid |-> [solved |-> count, cells |-> [g.cells EXCEPT ![cell] = digit]],
        previous |-> previous]

----------------------------------------------------------------------------
(* solver/placement.rs, solver/refinement.rs, solver/journal.rs *)

Placement_new(cell, digit) == [cell |-> cell, digit |-> digit]
Refinement_new(cell, removed, reason) == [cell |-> cell, removed |-> removed, reason |-> reason]

JournalWriter_new == <<>>
JournalReader_len(journal) == Len(journal)
\* A variant that pushes at the front
JournalWriter_append_event_Front(journal, event) == <<event>> \o journal
JournalWriter_append_event(journal, event) == Append(journal, event)

\* handle_next of JournalCursor and JournalMultiCursor. `cursor` is the position
\* read at the call, `journal` the storage at the call; Handler(s, event) gives
\* [s, ret]. The result is [s, cursor, invoked, ret]: the state the handler
\* left, the position to store, whether the handler ran, and its result.
\* A variant that leaves the position where it was
JournalCursor_handled_NoAdvance(index, event, result) ==
    [s |-> result.s, cursor |-> index, invoked |-> TRUE, event |-> event, ret |-> result.ret]

\* handle_next once the handler has returned result for the event at index;
\* a handler that panicked leaves the position where it was
JournalCursor_handled(index, event, result) ==
    [s |-> result.s,
     cursor |-> IF result.s.panicked # "" THEN index ELSE index + 1,
     invoked |-> TRUE,
     event |-> event,
     ret |-> result.ret]

JournalCursor_handle_next(cursor, journal, s, Handler(_, _)) ==
    IF cursor >= JournalReader_len(journal)
    THEN [s |-> s, cursor |-> cursor, invoked |-> FALSE, event |-> <<>>, ret |-> <<>>]
    ELSE LetIn(Handler(s, journal[cursor + 1]),
               LAMBDA result : JournalCursor_handled(cursor, journal[cursor + 1], result))

\* A variant that is content one entry early
JournalCursor_is_done_OneEarly(cursor, journal) == cursor + 1 >= JournalReader_len(journal)
JournalCursor_is_done(cursor, journal) == cursor = JournalReader_len(journal)

----------------------------------------------------------------------------
(* solver/analyzer.rs: the five analyses. A context is [pv, refinements,   *)
(* panic]: the Analyzer's PossibleValues, the refinement journal's storage *)
(* and the message of a failed assertion.                                  *)

\* A variant that appends the refinement whether or not the digit was removed
CtxRemoved_AlwaysAppend(ctx, rem, refinement) ==
    IF rem.panic # "" THEN [ctx EXCEPT !.pv = rem.pv, !.panic = rem.panic]
    ELSE [ctx EXCEPT !.pv = rem.pv, !.refinements = JournalWriter_append_event(@, refinement)]

\* The context after remove_possibility gave rem: a removal appends `refinement`.
CtxRemoved(ctx, rem, refinement) ==
    IF rem.panic # "" THEN [ctx EXCEPT !.pv = rem.pv, !.panic = rem.panic]
    ELSE IF rem.ret = None THEN ctx
    ELSE [ctx EXCEPT !.pv = rem.pv, !.refinements = JournalWriter_append_event(@, refinement)]

CtxRemove(ctx, cell, digit, reason) ==
    LetIn(PossibleValues_remove_possibility(ctx.pv, cell, digit),
          LAMBDA rem : CtxRemoved(ctx, rem, Refinement_new(cell, digit, reason)))

\* The context after resolve gave res: one refinement per removed digit, in
\* ascending order.
CtxResolved(ctx, res, cell, reason) ==
    IF res.panic # "" THEN [ctx EXCEPT !.pv = res.pv, !.panic = res.panic]
    ELSE Fold(LAMBDA acc, removed :
                [acc EXCEPT !.refinements = JournalWriter_append_event(@, Refinement_new(cell, removed, reason))],
              [ctx EXCEPT !.pv = res.pv], Ascending(res.ret), 1)

CellExclusion_analyze_next_placement(ctx, placement) ==
    LetIn(PossibleValues_resolve(ctx.pv, placement.cell, placement.digit),
          LAMBDA res : CtxResolved(ctx, res, placement.cell, <<"CellExclusion", placement.digit>>))

\* A variant that goes through the square, then the row, then the column
GroupExclusion_analyze_next_placement_SquareFirst(ctx, placement) ==
    Fold(LAMBDA acc, group :
            Fold(LAMBDA a, other :
                    IF a.panic # "" \/ other = placement.cell THEN a
                    ELSE CtxRemove(a, other, placement.digit, <<"GroupExclusion", placement.cell, group>>),
                 acc, Group_cells(group), 1),
         ctx, <<Group_square(placement.cell), Group_row(placement.cell), Group_column(placement.cell)>>, 1)

GroupExclusion_analyze_next_placement(ctx, placement) ==
    Fold(LAMBDA acc, group :
            Fold(LAMBDA a, other :
                    IF a.panic # "" \/ other = placement.cell THEN a
                    ELSE CtxRemove(a, other, placement.digit, <<"GroupExclusion", placement.cell, group>>),
                 acc, Group_cells(group), 1),
         ctx, Group_groups(placement.cell), 1)

\* The cells of a group, as a set.
CellsOf(group) == {Group_cells(group)[i] : i \in 1 .. DIMENSION}

\* The first cell of the group, in the order of Group::cells, that holds the
\* digit; NoCell if none does.
FirstHolder(values, group, digit) ==
    Fold(LAMBDA found, candidate :
            IF found = NoCell /\ digit \in PossibleValues_of_cell(values, candidate)
            THEN candidate ELSE found,
         NoCell, Group_cells(group), 1)

\* A variant that names the column of the resolved cell as the group
GroupInclusionResolve_NamesColumn(ctx, group, digit, candidate) ==
    IF candidate = NoCell THEN [ctx EXCEPT !.panic = "1 cell, as per the count above"]
    ELSE LetIn(PossibleValues_resolve(ctx.pv, candidate, digit),
               LAMBDA res : CtxResolved(ctx, res, candidate, <<"GroupInclusion", digit, Group_column(candidate)>>))

GroupInclusionResolve(ctx, group, digit, candidate) ==
    IF candidate = NoCell THEN [ctx EXCEPT !.panic = "1 cell, as per the count above"]
    ELSE LetIn(PossibleValues_resolve(ctx.pv, candidate, digit),
               LAMBDA res : CtxResolved(ctx, res, candidate, <<"GroupInclusion", digit, group>>))

\* A variant that keeps the default handler of AnalysisImpl, which does nothing
GroupInclusion_analyze_next_refinement_Default(ctx, refinement) == ctx

\* A variant that already resolves when two cells of the group hold the digit
GroupInclusion_analyze_next_refinement_TwoLeft(ctx, refinement) ==
    Fold(LAMBDA acc, group :
            IF acc.panic # "" THEN acc
            ELSE IF PossibleValues_of_group(acc.pv, group)[refinement.removed] \notin {1, 2} THEN acc
            ELSE LetIn(FirstHolder(acc.pv, group, refinement.removed),
                       LAMBDA candidate : GroupInclusionResolve(acc, group, refinement.removed, candidate)),
         ctx, Group_groups(refinement.cell), 1)

GroupInclusion_analyze_next_refinement(ctx, refinement) ==
    Fold(LAMBDA acc, group :
            IF acc.panic # "" THEN acc
            ELSE IF PossibleValues_of_group(acc.pv, group)[refinement.removed] # 1 THEN acc
            ELSE LetIn(FirstHolder(acc.pv, group, refinement.removed),
                       LAMBDA candidate : GroupInclusionResolve(acc, group, refinement.removed, candidate)),
         ctx, Group_groups(refinement.cell), 1)

\* The groups of type `which` (1 or 2 of other_groups) of the cells of
\* `includer` that still hold `digit`.
Overlapping(values, includer, digit, which) ==
    {Group_other_groups(includer, candidate)[which] :
        candidate \in {c \in CellsOf(includer) : digit \in PossibleValues_of_cell(values, c)}}

\* A variant that does not pass over the cells of the includer
GroupOverlapRemove_IncluderToo(ctx, includer, digit, overlapping_sets) ==
    IF overlapping_sets[1] = {} THEN ctx
    ELSE Fold(LAMBDA a, overlapping_set :
                IF a.panic # "" \/ Cardinality(overlapping_set) > 1 THEN a
                ELSE IF overlapping_set = {} THEN [a EXCEPT !.panic = "At least one group"]
                ELSE Fold(LAMBDA b, overlapping_cell :
                            IF b.panic # "" THEN b
                            ELSE CtxRemove(b, overlapping_cell, digit,
                                    <<"GroupOverlap", includer, CHOOSE g \in overlapping_set : TRUE>>),
                          a, Group_cells(CHOOSE g \in overlapping_set : TRUE), 1),
              ctx, overlapping_sets, 1)

\* The loop over [overlapping_a, overlapping_b] of GroupOverlap.
GroupOverlapRemove(ctx, includer, digit, overlapping_sets) ==
    IF overlapping_sets[1] = {} THEN ctx
    ELSE Fold(LAMBDA a, overlapping_set :
                IF a.panic # "" \/ Cardinality(overlapping_set) > 1 THEN a
                ELSE IF overlapping_set = {} THEN [a EXCEPT !.panic = "At least one group"]
                ELSE Fold(LAMBDA b, overlapping_cell :
                            IF b.panic # "" \/ Group_contains(includer, overlapping_cell) THEN b
                            ELSE CtxRemove(b, overlapping_cell, digit,
                                    <<"GroupOverlap", includer, CHOOSE g \in overlapping_set : TRUE>>),
                          a, Group_cells(CHOOSE g \in overlapping_set : TRUE), 1),
              ctx, overlapping_sets, 1)

\* One iteration of the loop over the groups of the refinement's cell.
GroupOverlapIncluder(ctx, includer, digit) ==
    IF ctx.panic # "" THEN ctx
    ELSE IF PossibleValues_of_group(ctx.pv, includer)[digit] > SQUARE_DIMENSION THEN ctx
    ELSE LetIn(<<Overlapping(ctx.pv, includer, digit, 1), Overlapping(ctx.pv, includer, digit, 2)>>,
               LAMBDA overlapping_sets : GroupOverlapRemove(ctx, includer, digit, overlapping_sets))

GroupOverlap_analyze_next_refinement(ctx, refinement) ==
    Fold(LAMBDA acc, includer : GroupOverlapIncluder(acc, includer, refinement.removed),
         ctx, Group_groups(refinement.cell), 1)

\* A variant that does not pass over the cells of the subset
SubsetRemove_SubsetToo(ctx, group, cells_subset, digits_subset) ==
    IF Cardinality(cells_subset) # Cardinality(digits_subset) THEN ctx
    ELSE Fold(LAMBDA a, candidate :
                Fold(LAMBDA b, digit :
                        IF b.panic # "" THEN b
                        ELSE CtxRemove(b, candidate, digit,
                                <<"GroupSubsetInclusion", cells_subset, digits_subset, group>>),
                     a, Ascending(digits_subset), 1),
              ctx, Group_cells(group), 1)

\* The second loop of analyze_next_cell over the cells of a group.
SubsetRemove(ctx, group, cells_subset, digits_subset) ==
    IF Cardinality(cells_subset) # Cardinality(digits_subset) THEN ctx
    ELSE Fold(LAMBDA a, candidate :
                IF candidate \in cells_subset THEN a
                ELSE Fold(LAMBDA b, digit :
                            IF b.panic # "" THEN b
                            ELSE CtxRemove(b, candidate, digit,
                                    <<"GroupSubsetInclusion", cells_subset, digits_subset, group>>),
                          a, Ascending(digits_subset), 1),
              ctx, Group_cells(group), 1)

\* One iteration of the loop of analyze_next_cell over the groups of the cell.
SubsetGroup(ctx, cell, digits_subset, group) ==
    IF ctx.panic # "" THEN ctx
    ELSE LetIn({cell} \cup {candidate \in CellsOf(group) :
                            PossibleValues_of_cell(ctx.pv, candidate) \subseteq digits_subset},
               LAMBDA cells_subset : SubsetRemove(ctx, group, cells_subset, digits_subset))

SubsetGroups(ctx, cell, digits_subset) ==
    IF Cardinality(digits_subset) <= 1 THEN ctx
    ELSE IF Cardinality(digits_subset) > DIMENSION \div 2 THEN ctx
    ELSE Fold(LAMBDA acc, group : SubsetGroup(acc, cell, digits_subset, group),
              ctx, Group_groups(cell), 1)

GroupSubsetInclusion_analyze_next_cell(ctx, cell) ==
    IF ctx.panic # "" THEN ctx
    ELSE SubsetGroups(ctx, cell, PossibleValues_of_cell(ctx.pv, cell))

GroupSubsetInclusion_analyze_next_refinement(ctx, refinement) ==
    Fold(LAMBDA acc, group :
            Fold(LAMBDA a, other :
                    IF a.panic = "" /\ refinement.removed \in PossibleValues_of_cell(a.pv, other)
                    THEN GroupSubsetInclusion_analyze_next_cell(a, other) ELSE a,
                 acc, Group_cells(group), 1),
         GroupSubsetInclusion_analyze_next_cell(ctx, refinement.cell), Group_groups(refinement.cell), 1)

\* AnalysisImpl: the handler of each analysis for each kind of event; the
\* trait's default bodies do nothing.
AnalysisImpl_analyze_next_placement(analysis, ctx, placement) ==
    CASE analysis = "CellExclusion" -> CellExclusion_analyze_next_placement(ctx, placement)
      [] analysis = "GroupExclusion" -> GroupExclusion_analyze_next_placement(ctx, placement)
      [] OTHER -> ctx

AnalysisImpl_analyze_next_refinement(analysis, ctx, refinement) ==
    CASE analysis = "GroupInclusion" -> GroupInclusion_analyze_next_refinement(ctx, refinement)
      [] analysis = "GroupOverlap" -> GroupOverlap_analyze_next_refinement(ctx, refinement)
      [] analysis = "GroupSubsetInclusion" -> GroupSubsetInclusion_analyze_next_refinement(ctx, refinement)
      [] OTHER -> ctx

----------------------------------------------------------------------------
(* The Solver's state as one value: s = [grid, analyzer, placer, placements, *)
(* refinements, panicked, delivered]. The operations below map such a value *)
(* to the value they leave and their result.                                *)

CursorIndexes == 0 .. (NUMBER_ANALYSIS - 1)

AnalysisContext(s) ==
    [pv |-> s.analyzer.possible_values, refinements |-> s.refinements, panic |-> ""]

WithContext(s, ctx) ==
    [s EXCEPT !.analyzer.possible_values = ctx.pv, !.refinements = ctx.refinements, !.panicked = ctx.panic]

(* solver/analyzer.rs: Analyzer *)

Analyzer_new ==
    [possible_values |-> PossibleValues_all,
     placements_cursors |-> [i \in CursorIndexes |-> 0],
     refinements_cursors |-> [i \in CursorIndexes |-> 0]]

\* A variant that looks at the placement cursors only
Analyzer_is_done_PlacementsOnly(s) ==
    \A index \in CursorIndexes :
        JournalCursor_is_done(s.analyzer.placements_cursors[index], s.placements)

Analyzer_is_done(s) ==
    \A index \in CursorIndexes :
        /\ JournalCursor_is_done(s.analyzer.placements_cursors[index], s.placements)
        /\ JournalCursor_is_done(s.analyzer.refinements_cursors[index], s.refinements)

\* What analyze_next_*_with returns: the growth of the refinement journal.
Refined(after, before) ==
    [s |-> after, ret |-> JournalReader_len(after.refinements) - before]

\* The position handle_next stores, and the record of the delivery.
StorePlacementsCursor(h, cursor_index) ==
    [h.s EXCEPT !.analyzer.placements_cursors[cursor_index] = h.cursor,
                !.delivered.placements_cursors[cursor_index] = IF h.invoked THEN Append(@, h.event) ELSE @]

\* A variant in which the positions are one shared position
StoreRefinementsCursor_Shared(h, cursor_index) ==
    [h.s EXCEPT !.analyzer.refinements_cursors = [i \in CursorIndexes |-> h.cursor],
                !.delivered.refinements_cursors[cursor_index] = IF h.invoked THEN Append(@, h.event) ELSE @]

StoreRefinementsCursor(h, cursor_index) ==
    [h.s EXCEPT !.analyzer.refinements_cursors[cursor_index] = h.cursor,
                !.delivered.refinements_cursors[cursor_index] = IF h.invoked THEN Append(@, h.event) ELSE @]

\* [s, ret]: ret the number of refinements added
Analyzer_analyze_next_placement_with(s, analysis) ==
    LetIn(JournalCursor_handle_next(
                s.analyzer.placements_cursors[Analyzer_cursor_index(analysis)], s.placements, s,
                LAMBDA st, placement :
                    LetIn(AnalysisImpl_analyze_next_placement(analysis, AnalysisContext(st), placement),
                          LAMBDA ctx : [s |-> WithContext(st, ctx), ret |-> <<>>])),
          LAMBDA h : Refined(StorePlacementsCursor(h, Analyzer_cursor_index(analysis)),
                             JournalReader_len(s.refinements)))

Analyzer_analyze_next_refinement_with(s, analysis) ==
    LetIn(JournalCursor_handle_next(
                s.analyzer.refinements_cursors[Analyzer_cursor_index(analysis)], s.refinements, s,
                LAMBDA st, refinement :
                    LetIn(AnalysisImpl_analyze_next_refinement(analysis, AnalysisContext(st), refinement),
                          LAMBDA ctx : [s |-> WithContext(st, ctx), ret |-> <<>>])),
          LAMBDA h : Refined(StoreRefinementsCursor(h, Analyzer_cursor_index(analysis)),
                             JournalReader_len(s.refinements)))

\* A variant that goes through the analyses from the last to the first
AnalyzeSteps_CostliestFirst ==
    [i \in 1 .. (2 * NUMBER_ANALYSIS) |->
        [analysis |-> ALL_ANALYSES[NUMBER_ANALYSIS + 1 - ((i + 1) \div 2)],
         stream |-> IF i % 2 = 1 THEN "placement" ELSE "refinement"]]

\* A variant that hands each analysis its refinement before its placement
AnalyzeSteps_RefinementFirst ==
    [i \in 1 .. (2 * NUMBER_ANALYSIS) |->
        [analysis |-> ALL_ANALYSES[(i + 1) \div 2], stream |-> IF i % 2 = 1 THEN "refinement" ELSE "placement"]]

\* The analysis/stream steps of analyze(), in the order of its loop.
AnalyzeSteps ==
    [i \in 1 .. (2 * NUMBER_ANALYSIS) |->
        [analysis |-> ALL_ANALYSES[(i + 1) \div 2], stream |-> IF i % 2 = 1 THEN "placement" ELSE "refinement"]]

\* analyze: [s, ret]; the loop stops at the first step that added a refinement
Analyzer_analyze(s) ==
    Fold(LAMBDA acc, step :
            IF acc.ret # 0 \/ acc.s.panicked # "" THEN acc
            ELSE IF step.stream = "placement"
                 THEN Analyzer_analyze_next_placement_with(acc.s, step.analysis)
                 ELSE Analyzer_analyze_next_refinement_with(acc.s, step.analysis),
         [s |-> s, ret |-> 0], AnalyzeSteps, 1)

(* solver/placer.rs: Placer *)

Placer_new == [possible_values |-> PossibleValues_all, refinements |-> 0]

Placer_is_done(s) == JournalCursor_is_done(s.placer.refinements, s.refinements)

\* set_digit after resolve gave res
PlacerResolved(s, res, placement) ==
    IF res.panic # ""
    THEN [s EXCEPT !.placer.possible_values = res.pv, !.panicked = res.panic]
    ELSE [s EXCEPT !.placer.possible_values = res.pv,
                   !.placements = JournalWriter_append_event(@, placement)]

Placer_set_digit(s, cell, digit) ==
    LetIn(PossibleValues_resolve(s.placer.possible_values, cell, digit),
          LAMBDA res : PlacerResolved(s, res, Placement_new(cell, digit)))

\* A variant of the closure that places the last candidate of the cell even
\* when the refinement removed nothing
PlacerRemoved_PlacesAgain(s, rem, cell) ==
    LET s1 == [s EXCEPT !.placer.possible_values = rem.pv, !.panicked = rem.panic]
        left == PossibleValues_of_cell(rem.pv, cell)
    IN IF rem.panic # "" THEN [s |-> s1, ret |-> <<>>]
       ELSE IF Cardinality(left) > 1 THEN [s |-> s1, ret |-> <<>>]
       ELSE IF left = {}
       THEN [s |-> [s1 EXCEPT !.panicked = "called Option::unwrap() on a None value"], ret |-> <<>>]
       ELSE [s |-> [s1 EXCEPT !.placements =
                        JournalWriter_append_event(@, Placement_new(cell, Ascending(left)[1]))],
             ret |-> <<Placement_new(cell, Ascending(left)[1])>>]

\* The closure of handle_next_refinement after remove_possibility gave rem:
\* [s, ret], ret = <<>> for None and <<placement>> for Some(placement).
PlacerRemoved(s, rem, cell) ==
    LET s1 == [s EXCEPT !.placer.possible_values = rem.pv, !.panicked = rem.panic]
        left == PossibleValues_of_cell(rem.pv, cell)
    IN IF rem.panic # "" \/ rem.ret = None THEN [s |-> s1, ret |-> <<>>]
       ELSE IF Cardinality(left) > 1 THEN [s |-> s1, ret |-> <<>>]
       ELSE IF left = {}
       THEN [s |-> [s1 EXCEPT !.panicked = "called Option::unwrap() on a None value"], ret |-> <<>>]
       ELSE [s |-> [s1 EXCEPT !.placements =
                        JournalWriter_append_event(@, Placement_new(cell, Ascending(left)[1]))],
             ret |-> <<Placement_new(cell, Ascending(left)[1])>>]

\* A variant that does not apply the refinements of GroupExclusion
PlacerHandler_IgnoreGroupExclusion(s, refinement) ==
    IF refinement.reason[1] = "GroupExclusion" THEN [s |-> s, ret |-> <<>>]
    ELSE LetIn(PossibleValues_remove_possibility(s.placer.possible_values, refinement.cell, refinement.removed),
               LAMBDA rem : PlacerRemoved(s, rem, refinement.cell))

PlacerHandler(s, refinement) ==
    LetIn(PossibleValues_remove_possibility(s.placer.possible_values, refinement.cell, refinement.removed),
          LAMBDA rem : PlacerRemoved(s, rem, refinement.cell))

\* Variant: the Placer stores its candidates into the Analyzer's copy as well.
StorePlacerCursor_SharedValues(h) ==
    [s |-> [h.s EXCEPT !.placer.refinements = h.cursor,
                       !.analyzer.possible_values = h.s.placer.possible_values,
                       !.delivered.placer = IF h.invoked THEN Append(@, h.event) ELSE @],
     ret |-> h.ret]

StorePlacerCursor(h) ==
    [s |-> [h.s EXCEPT !.placer.refinements = h.cursor,
                       !.delivered.placer = IF h.invoked THEN Append(@, h.event) ELSE @],
     ret |-> h.ret]

Placer_handle_next_refinement(s) ==
    LetIn(JournalCursor_handle_next(s.placer.refinements, s.refinements, s, PlacerHandler),
          LAMBDA h : StorePlacerCursor(h))

(* solver/solver.rs: Solver *)

\* CellIndex::all(): 0, 1, ..., 80, that is row after row; FoldCells is a loop
\* over it.
\* A variant that walks the rows from the last to the first
RowsInOrder_Reversed == [i \in 1 .. DIMENSION |-> DIMENSION - i]
RowsInOrder == [i \in 1 .. DIMENSION |-> i - 1]
FoldCells(Op(_, _), acc) ==
    Fold(LAMBDA a, row : Fold(Op, a, Group_cells(Row(row)), 1), acc, RowsInOrder, 1)

Solver_new(input) ==
    FoldCells(LAMBDA s, cell :
            IF s.panicked # "" \/ Grid_get_digit(input, cell) = None THEN s
            ELSE Placer_set_digit(s, cell, Grid_get_digit(input, cell)),
         [grid |-> input,
          analyzer |-> Analyzer_new,
          placer |-> Placer_new,
          placements |-> JournalWriter_new,
          refinements |-> JournalWriter_new,
          panicked |-> "",
          delivered |-> [placer |-> <<>>,
                         placements_cursors |-> [i \in CursorIndexes |-> <<>>],
                         refinements_cursors |-> [i \in CursorIndexes |-> <<>>]]])

ConflictError(digit, candidate, conflicting) ==
    [digit |-> digit, candidate |-> candidate, conflicting |-> conflicting]

\* A variant that writes the digit into the grid before it reports the conflict
SolverSetChecked_WriteFirst(s, cell, digit, conflicting) ==
    IF conflicting # NoCell
    THEN [s |-> [s EXCEPT !.grid = Grid_set_digit(s.grid, cell, digit).grid],
          ret |-> <<"Err", ConflictError(digit, cell, conflicting)>>]
    ELSE [s |-> Placer_set_digit([s EXCEPT !.grid = Grid_set_digit(s.grid, cell, digit).grid], cell, digit),
          ret |-> <<"Ok">>]

\* set_digit once get_conflicting has answered: [s, ret], ret = <<"Ok">> or
\* <<"Err", error>>
SolverSetChecked(s, cell, digit, conflicting) ==
    IF conflicting # NoCell
    THEN [s |-> s, ret |-> <<"Err", ConflictError(digit, cell, conflicting)>>]
    ELSE [s |-> Placer_set_digit([s EXCEPT !.grid = Grid_set_digit(s.grid, cell, digit).grid], cell, digit),
          ret |-> <<"Ok">>]

Solver_set_digit(s, cell, digit) ==
    LetIn(Grid_get_conflicting(s.grid, cell, digit),
          LAMBDA conflicting : SolverSetChecked(s, cell, digit, conflicting))

\* solve() run from call to return on the Solver s, with the loops of place()
\* and refine() that it calls. A run is [s, at, ret]: `at` is the loop whose
\* next iteration is due ("solve", "place" or "refine"), ret is "Running"
\* until solve() ends with "Ok", "Err" (ProgressStalled) or "Panic".
Solver_solve_iteration(run) ==
    IF Grid_number_solved(run.s.grid) >= DIMENSION * DIMENSION THEN [run EXCEPT !.ret = "Ok"]
    ELSE [run EXCEPT !.at = "place"]

\* place() found nothing left to handle: solve() goes on with refine()
Solver_place_iteration(run) ==
    IF Placer_is_done(run.s) THEN [run EXCEPT !.at = "refine"]
    ELSE LetIn(Placer_handle_next_refinement(run.s),
               LAMBDA h :
                    IF h.s.panicked # "" THEN [s |-> h.s, at |-> "place", ret |-> "Panic"]
                    ELSE IF h.ret # <<>>
                    THEN [s |-> [h.s EXCEPT !.grid = Grid_set_digit(h.s.grid, h.ret[1].cell, h.ret[1].digit).grid],
                          at |-> "solve", ret |-> "Running"]
                    ELSE [s |-> h.s, at |-> "place", ret |-> "Running"])

Solver_refine_iteration(run) ==
    IF Analyzer_is_done(run.s) THEN [run EXCEPT !.ret = "Err"]
    ELSE LetIn(Analyzer_analyze(run.s),
               LAMBDA a :
                    IF a.s.panicked # "" THEN [s |-> a.s, at |-> "refine", ret |-> "Panic"]
                    ELSE IF a.ret > 0 THEN [s |-> a.s, at |-> "solve", ret |-> "Running"]
                    ELSE [s |-> a.s, at |-> "refine", ret |-> "Running"])

Solver_iteration(run) ==
    CASE run.at = "solve" -> Solver_solve_iteration(run)
      [] run.at = "place" -> Solver_place_iteration(run)
      [] run.at = "refine" -> Solver_refine_iteration(run)

\* At most 2^MaxLoopDepth iterations, the first half and then the second; a
\* run that needs more is left "Running".
MaxLoopDepth == 10

RECURSIVE Solver_iterations(_, _)
Solver_iterations(depth, run) ==
    IF run.ret # "Running" THEN run
    ELSE IF depth = 0 THEN Solver_iteration(run)
    ELSE Solver_iterations(depth - 1, Solver_iterations(depth - 1, run))

Solver_solve(s) == Solver_iterations(MaxLoopDepth, [s |-> s, at |-> "solve", ret |-> "Running"])

----------------------------------------------------------------------------
(* Specification SpecPV: one PossibleValues instance, created by all() and  *)
(* driven by arbitrary resolve and remove_possibility calls.                *)

MaxPVCells == 2
MaxPVDigit == 2
\* r0c0, r0c1 (same row and square), r1c1 (same column and square as r0c1), r4c3
PVCellPool == <<0, 1, 10, 39>>
PVCells == {PVCellPool[i] : i \in 1 .. (IF MaxPVCells < Len(PVCellPool) THEN MaxPVCells ELSE Len(PVCellPool))}
PVDigits == 1 .. MaxPVDigit

SolverIdle ==
    /\ grid = Grid_default
    /\ analyzer = Analyzer_new /\ placer = Placer_new
    /\ placements = <<>> /\ refinements = <<>>
    /\ panicked = "" /\ delivered = <<>> /\ pc = <<>> /\ entry = <<>>

NoCall == <<>>

\* No CSV file is being read
NoCsv == [lines |-> <<>>, range |-> [start |-> 0, end |-> 0], step |-> 1,
          position |-> 0, yielded |-> <<>>, ended |-> TRUE]

InitPV ==
    /\ SolverIdle
    /\ pv = PossibleValues_all
    /\ tally = DigitCounter_full
    /\ csv = NoCsv
    /\ last = NoCall

\* The call `op` of the instance returned r.
PVReturn(op, cell, digit, r) ==
    /\ pv' = r.pv
    /\ tally' = tally
    /\ csv' = csv
    /\ panicked' = r.panic
    /\ last' = <<[op |-> op, cell |-> cell, digit |-> digit, before |-> pv, ret |-> r.ret]>>
    /\ UNCHANGED <<grid, analyzer, placer, placements, refinements, delivered, pc, entry>>

PVResolve(cell, digit) ==
    /\ panicked = ""
    /\ PVReturn("resolve", cell, digit, PossibleValues_resolve(pv, cell, digit))

PVRemovePossibility(cell, digit) ==
    /\ panicked = ""
    /\ PVReturn("remove_possibility", cell, digit, PossibleValues_remove_possibility(pv, cell, digit))

NextPV ==
    \/ \E cell \in PVCells, digit \in PVDigits : PVResolve(cell, digit)
    \/ \E cell \in PVCells, digit \in PVDigits : PVRemovePossibility(cell, digit)

SpecPV == InitPV /\ [][NextPV]_vars

----------------------------------------------------------------------------
(* Specification Spec: a Solver built by Solver::new from an input grid and *)
(* driven by set_digit, place, refine and solve. The loops of place, refine *)
(* and solve advance one iteration per step; pc holds the running calls     *)
(* (outermost first) and no other operation starts while one runs.          *)

State ==
    [grid |-> grid, analyzer |-> analyzer, placer |-> placer, placements |-> placements,
     refinements |-> refinements, panicked |-> panicked, delivered |-> delivered]

Commit(s) ==
    /\ grid' = s.grid
    /\ analyzer' = s.analyzer
    /\ placer' = s.placer
    /\ placements' = s.placements
    /\ refinements' = s.refinements
    /\ panicked' = s.panicked
    /\ delivered' = s.delivered

Holds(s) ==
    /\ grid = s.grid
    /\ analyzer = s.analyzer
    /\ placer = s.placer
    /\ placements = s.placements
    /\ refinements = s.refinements
    /\ panicked = s.panicked
    /\ delivered = s.delivered

\* What a call is compared against when it returns.
Snapshot(s) ==
    [grid |-> s.grid, analyzer |-> s.analyzer, placer |-> s.placer,
     placements |-> s.placements, refinements |-> s.refinements]

\* The input grids, built by Grid::set_digit from the empty grid: the givens
\* drawn from a pool, and three grids on which the analyses have something to
\* deduce.
MaxPlacements == 2
PoolCells == {0, 1}
PoolDigits == {5, 6}

\* 5 in r0c3, r1c6, r3c0 and r6c1: r2c2 is the only cell of square 0 left for 5
HiddenSingleGivens == <<<<3, 5>>, <<15, 5>>, <<27, 5>>, <<55, 5>>>>
\* rows 0 and 1 of square 0 filled: 5, 8 and 9 of square 0 all lie in row 2
PointingGivens == <<<<0, 1>>, <<1, 2>>, <<2, 3>>, <<9, 4>>, <<10, 6>>, <<11, 7>>>>
\* r0c0 and r0c4 are both left with {2, 6}: 1, 3, 4 in their row, 5, 7, 8, 9
\* in each of their columns
NakedPairGivens ==
    <<<<1, 1>>, <<2, 3>>, <<3, 4>>,
      <<27, 5>>, <<36, 7>>, <<45, 8>>, <<54, 9>>,
      <<31, 7>>, <<40, 5>>, <<49, 9>>, <<58, 8>>>>

GridOf(givens) ==
    Fold(LAMBDA g, given : Grid_set_digit(g, given[1], given[2]).grid, Grid_default, givens, 1)

PoolGivens == UNION {[cells -> PoolDigits] : cells \in SUBSET PoolCells}

InputGrids ==
    {GridOf([i \in 1 .. Cardinality(DOMAIN givens) |-> <<Ascending(DOMAIN givens)[i], givens[Ascending(DOMAIN givens)[i]]>>]) :
        givens \in PoolGivens}
    \cup {GridOf(HiddenSingleGivens), GridOf(PointingGivens), GridOf(NakedPairGivens)}

Init ==
    /\ \E input \in InputGrids :
        /\ Holds(Solver_new(input))
        /\ last = <<[op |-> "new", input |-> input]>>
    /\ pc = <<>>
    /\ entry = <<>>
    /\ pv = PossibleValues_all
    /\ tally = DigitCounter_full
    /\ csv = NoCsv

Running(op) == panicked = "" /\ pc # <<>> /\ pc[Len(pc)] = op
Idle == panicked = "" /\ pc = <<>>

\* A step that leaves the running call where it is.
Stay(s, returns) ==
    /\ Commit(s)
    /\ pc' = pc
    /\ entry' = entry
    /\ last' = returns

\* A variant in which solve() answers Ok when refine() has stalled
Return_StalledIsOk(op, ret, s, returns) ==
    LET mine == [op |-> op, ret |-> ret, entry |-> entry[Len(pc)]]
    IN /\ Commit(s)
       /\ IF Len(pc) = 1
          THEN /\ pc' = <<>>
               /\ entry' = <<>>
               /\ last' = Append(returns, mine)
          ELSE IF ret = "Ok"
          THEN /\ pc' = <<"solve">>
               /\ entry' = <<entry[1]>>
               /\ last' = Append(returns, mine)
          ELSE IF op = "place"
          THEN /\ pc' = <<"solve", "refine">>
               /\ entry' = <<entry[1], Snapshot(s)>>
               /\ last' = Append(returns, mine)
          ELSE /\ pc' = <<>>
               /\ entry' = <<>>
               /\ last' = returns \o <<mine, [op |-> "solve", ret |-> "Ok", entry |-> entry[1]]>>

\* The running call `op` returns `ret`, after the inner calls `returns` of this
\* step. Inside solve(), Ok from place or refine leads back to the loop's
\* head, Err from place to the call of refine, and Err from refine to
\* solve's own Err.
Return(op, ret, s, returns) ==
    LET mine == [op |-> op, ret |-> ret, entry |-> entry[Len(pc)]]
    IN /\ Commit(s)
       /\ IF Len(pc) = 1
          THEN /\ pc' = <<>>
               /\ entry' = <<>>
               /\ last' = Append(returns, mine)
          ELSE IF ret = "Ok"
          THEN /\ pc' = <<"solve">>
               /\ entry' = <<entry[1]>>
               /\ last' = Append(returns, mine)
          ELSE IF op = "place"
          THEN /\ pc' = <<"solve", "refine">>
               /\ entry' = <<entry[1], Snapshot(s)>>
               /\ last' = Append(returns, mine)
          ELSE /\ pc' = <<>>
               /\ entry' = <<>>
               /\ last' = returns \o <<mine, [op |-> "solve", ret |-> "Err", entry |-> entry[1]]>>

\* Solver::set_digit(cell, digit)
SetDigitReturn(cell, digit, r) ==
    /\ Commit(r.s)
    /\ last' = IF r.s.panicked # "" THEN <<>>
               ELSE <<[op |-> "set_digit", cell |-> cell, digit |-> digit, ret |-> r.ret,
                       entry |-> Snapshot(State)]>>

SetDigit(cell, digit) ==
    /\ Idle
    /\ Len(placements) < MaxPlacements
    /\ \E r \in {Solver_set_digit(State, cell, digit)} : SetDigitReturn(cell, digit, r)
    /\ UNCHANGED <<pc, entry, pv, tally, csv>>

\* The call of place(), refine() or solve()
Called(op) ==
    /\ Idle
    /\ pc' = <<op>>
    /\ entry' = <<Snapshot(State)>>
    /\ last' = <<>>
    /\ UNCHANGED <<grid, analyzer, placer, placements, refinements, panicked, delivered, pv, tally, csv>>

\* The call, made while the journal holds few placements unless it is solve()
Call(op) ==
    /\ op # "solve" => Len(placements) <= MaxPlacements
    /\ Called(op)

\* A variant of the loop of place() that leaves the found placement out of
\* the Grid
PlaceHandled_NoGridWrite(h) ==
    IF h.s.panicked # "" THEN Stay(h.s, <<>>)
    ELSE IF h.ret # <<>>
    THEN Return("place", "Ok", h.s, <<[op |-> "handle_next_refinement", ret |-> h.ret]>>)
    ELSE Stay(h.s, <<[op |-> "handle_next_refinement", ret |-> h.ret]>>)

\* A variant of the loop of place() whose written digit is not settled by the
\* Solver's state: the found digit or its successor
PlaceHandled_EitherDigit(h) ==
    IF h.s.panicked # "" THEN Stay(h.s, <<>>)
    ELSE IF h.ret # <<>>
    THEN \E digit \in {h.ret[1].digit, (h.ret[1].digit % DIMENSION) + 1} :
            Return("place", "Ok",
                   [h.s EXCEPT !.grid = Grid_set_digit(h.s.grid, h.ret[1].cell, digit).grid],
                   <<[op |-> "handle_next_refinement", ret |-> h.ret]>>)
    ELSE Stay(h.s, <<[op |-> "handle_next_refinement", ret |-> h.ret]>>)

\* A variant of the loop of place() that takes the row of the placement for
\* the column and the column for the row when it writes the Grid
PlaceHandled_Transposed(h) ==
    IF h.s.panicked # "" THEN Stay(h.s, <<>>)
    ELSE IF h.ret # <<>>
    THEN Return("place", "Ok",
                [h.s EXCEPT !.grid =
                    Grid_set_digit(h.s.grid,
                                   CellIndex_from_coordinates(CellIndex_column(h.ret[1].cell),
                                                              CellIndex_row(h.ret[1].cell)),
                                   h.ret[1].digit).grid],
                <<[op |-> "handle_next_refinement", ret |-> h.ret]>>)
    ELSE Stay(h.s, <<[op |-> "handle_next_refinement", ret |-> h.ret]>>)

\* One iteration of the loop of place(): h is what handle_next_refinement gave
PlaceHandled(h) ==
    IF h.s.panicked # "" THEN Stay(h.s, <<>>)
    ELSE IF h.ret # <<>>
    THEN Return("place", "Ok",
                [h.s EXCEPT !.grid = Grid_set_digit(h.s.grid, h.ret[1].cell, h.ret[1].digit).grid],
                <<[op |-> "handle_next_refinement", ret |-> h.ret]>>)
    ELSE Stay(h.s, <<[op |-> "handle_next_refinement", ret |-> h.ret]>>)

PlaceStep ==
    /\ Running("place")
    /\ IF Placer_is_done(State)
       THEN Return("place", "Err", State, <<>>)
       ELSE \E h \in {Placer_handle_next_refinement(State)} : PlaceHandled(h)
    /\ UNCHANGED <<pv, tally, csv>>

\* A variant of the loop of refine() that is content with an analyze() that
\* found nothing
RefineAnalyzed_AlwaysOk(a) ==
    IF a.s.panicked # "" THEN Stay(a.s, <<>>)
    ELSE Return("refine", "Ok", a.s, <<[op |-> "analyze", ret |-> a.ret]>>)

\* One iteration of the loop of refine(): a is what analyze gave
RefineAnalyzed(a) ==
    IF a.s.panicked # "" THEN Stay(a.s, <<>>)
    ELSE IF a.ret > 0 THEN Return("refine", "Ok", a.s, <<[op |-> "analyze", ret |-> a.ret]>>)
    ELSE Stay(a.s, <<[op |-> "analyze", ret |-> a.ret]>>)

RefineStep ==
    /\ Running("refine")
    /\ IF Analyzer_is_done(State)
       THEN Return("refine", "Err", State, <<>>)
       ELSE \E a \in {Analyzer_analyze(State)} : RefineAnalyzed(a)
    /\ UNCHANGED <<pv, tally, csv>>

\* A variant that is content with one empty cell
SolveLoop_OneShort ==
    /\ Running("solve")
    /\ IF Grid_number_solved(grid) < DIMENSION * DIMENSION - 1
       THEN /\ pc' = <<"solve", "place">>
            /\ entry' = <<entry[1], Snapshot(State)>>
            /\ last' = <<>>
            /\ UNCHANGED <<grid, analyzer, placer, placements, refinements, panicked, delivered>>
       ELSE Return("solve", "Ok", State, <<>>)
    /\ UNCHANGED <<pv, tally, csv>>

\* The head of the loop of solve(): return Ok on a full grid, else call place()
SolveLoop ==
    /\ Running("solve")
    /\ IF Grid_number_solved(grid) < DIMENSION * DIMENSION
       THEN /\ pc' = <<"solve", "place">>
            /\ entry' = <<entry[1], Snapshot(State)>>
            /\ last' = <<>>
            /\ UNCHANGED <<grid, analyzer, placer, placements, refinements, panicked, delivered>>
       ELSE Return("solve", "Ok", State, <<>>)
    /\ UNCHANGED <<pv, tally, csv>>

Next ==
    \/ \E cell \in PoolCells, digit \in PoolDigits : SetDigit(cell, digit)
    \/ Call("place")
    \/ Call("refine")
    \/ Call("solve")
    \/ PlaceStep
    \/ RefineStep
    \/ SolveLoop

Spec == Init /\ [][Next]_vars

\* Spec with the scheduling of the code: the program is single-threaded and
\* synchronous, so a call that runs takes its next loop iteration. The calls
\* themselves (Call, SetDigit) are the caller's and are not forced.
SpecFair == Spec /\ WF_vars(PlaceStep) /\ WF_vars(RefineStep) /\ WF_vars(SolveLoop)

----------------------------------------------------------------------------
(* Specification SpecSolve: Solver::new on a grid that is full, or full but  *)
(* for some cells, or that stalls, and then nothing but solve().             *)

MaxEmptied == 1
\* a completed Sudoku: row r is the row 0 shifted by 3r + r/3
FullDigit(cell) == ((3 * CellIndex_row(cell) + (CellIndex_row(cell) \div 3) + CellIndex_column(cell)) % DIMENSION) + 1
EmptiedPool == {8, 40}

SolveGivens(emptied) ==
    Fold(LAMBDA acc, cell : IF cell \in emptied THEN acc ELSE Append(acc, <<cell, FullDigit(cell)>>),
         <<>>, [i \in 1 .. NUMBER_CELLS |-> i - 1], 1)

\* The completed Sudoku but for r4c4, with the digit of r0c0 written over
\* that of r0c1: a grid that parse_grid builds like any other.
DuplicateGivens ==
    [i \in 1 .. (NUMBER_CELLS - 1) |->
        IF SolveGivens({40})[i][1] = 1 THEN <<1, FullDigit(0)>> ELSE SolveGivens({40})[i]]

SolveGrids ==
    {GridOf(SolveGivens(emptied)) : emptied \in {e \in SUBSET EmptiedPool : Cardinality(e) <= MaxEmptied}}
    \cup {Grid_default, GridOf(HiddenSingleGivens), GridOf(DuplicateGivens)}

InitSolve ==
    /\ \E input \in SolveGrids :
        /\ Holds(Solver_new(input))
        /\ last = <<[op |-> "new", input |-> input]>>
    /\ pc = <<>>
    /\ entry = <<>>
    /\ pv = PossibleValues_all
    /\ tally = DigitCounter_full
    /\ csv = NoCsv

NextSolve ==
    \/ Call("solve")
    \/ PlaceStep
    \/ RefineStep
    \/ SolveLoop

SpecSolve == InitSolve /\ [][NextSolve]_vars

----------------------------------------------------------------------------
(* Specification SpecGrid: one Grid, created empty and driven by arbitrary  *)
(* set_digit calls (a digit or None) and get_conflicting queries.           *)

MaxGridCells == 4
MaxGridDigit == 2
\* r0c0; r1c0 (its column and square), r0c1 (its row and square), r3c0 (its
\* column only), r1c1 (its square only), r0c3 (its row only), r4c4 (no group)
GridCellPool == <<0, 9, 1, 27, 10, 3, 40>>
GridCells == {GridCellPool[i] : i \in 1 .. (IF MaxGridCells < Len(GridCellPool) THEN MaxGridCells ELSE Len(GridCellPool))}
GridDigits == 1 .. MaxGridDigit

InitGrid ==
    /\ SolverIdle
    /\ pv = PossibleValues_all
    /\ tally = DigitCounter_full
    /\ csv = NoCsv
    /\ last = NoCall

\* Grid::set_digit(cell, digit), digit = None to clear the cell
GridSetDigit(cell, digit) ==
    /\ grid' = Grid_set_digit(grid, cell, digit).grid
    /\ last' = <<[op |-> "Grid::set_digit", cell |-> cell, digit |-> digit, before |-> grid,
                  ret |-> Grid_set_digit(grid, cell, digit).previous]>>
    /\ UNCHANGED <<analyzer, placer, placements, refinements, panicked, delivered, pc, entry, pv, tally, csv>>

\* Grid::get_conflicting(cell, digit)
GridGetConflicting(cell, digit) ==
    /\ last' = <<[op |-> "Grid::get_conflicting", cell |-> cell, digit |-> digit, before |-> grid,
                  ret |-> Grid_get_conflicting(grid, cell, digit)]>>
    /\ UNCHANGED <<grid, analyzer, placer, placements, refinements, panicked, delivered, pc, entry, pv, tally, csv>>

NextGrid ==
    \/ \E cell \in GridCells, digit \in GridDigits \cup {None} : GridSetDigit(cell, digit)
    \/ \E cell \in GridCells, digit \in GridDigits : GridGetConflicting(cell, digit)

SpecGrid == InitGrid /\ [][NextGrid]_vars

----------------------------------------------------------------------------
(* Specification SpecSound: Solver::new on a grid taken from a completed     *)
(* Sudoku, then solve(), place() and refine() and nothing else.              *)

\* Givens taken from the completed Sudoku FullDigit, in cell order
GivensAt(cells) == [i \in 1 .. Len(cells) |-> <<cells[i], FullDigit(cells[i])>>]

\* two givens in the middle row, and the second of them alone
SoundPairGivens == GivensAt(<<40, 41>>)
SoundSingleGivens == GivensAt(<<41>>)
\* 1 in r1c6, r2c3, r5c2 and r8c1: r0c0 is the only cell of square 0 left for 1
SoundHiddenSingleGivens == GivensAt(<<15, 21, 47, 73>>)
\* row 1 of square 0 and r0c1, r0c2 filled, 1 in r2c3: r0c0 is the only cell
\* of square 0 left for 1, while its row and its column have others
SoundSquareSingleGivens == GivensAt(<<1, 2, 9, 10, 11, 21>>)
\* rows 0 and 1 of square 0 filled: 7, 8 and 9 of square 0 all lie in row 2
SoundPointingGivens == GivensAt(<<0, 1, 2, 9, 10, 11>>)
\* r0c0 and r0c4 are both left with {1, 5}: 2, 3, 4 in their row, 6, 7, 8, 9
\* in each of their columns
SoundNakedPairGivens == GivensAt(<<1, 2, 3, 13, 18, 31, 40, 45, 58, 63, 72>>)
\* every cell whose row and column numbers add up to an odd number
SoundHalfGivens == SolveGivens({cell \in CellIndexes : (CellIndex_row(cell) + CellIndex_column(cell)) % 2 = 0})

SoundInputs ==
    {<<>>, SoundPairGivens, SoundSingleGivens, SoundHiddenSingleGivens, SoundSquareSingleGivens,
     SoundPointingGivens,
     SoundNakedPairGivens, SoundHalfGivens, SolveGivens({8}), SolveGivens({})}

InitSound ==
    /\ \E givens \in SoundInputs :
        /\ Holds(Solver_new(GridOf(givens)))
        /\ last = <<[op |-> "new", input |-> GridOf(givens)]>>
    /\ pc = <<>>
    /\ entry = <<>>
    /\ pv = PossibleValues_all
    /\ tally = DigitCounter_full
    /\ csv = NoCsv

\* The call of place(), refine() or solve(): place() and refine() are called
\* until the Placer has deduced its first placement
MaxSoundPlacements == 4

SoundCall(op) ==
    /\ op # "solve" => Len(placements) <= MaxSoundPlacements
    /\ Called(op)

NextSound ==
    \/ SoundCall("place")
    \/ SoundCall("refine")
    \/ SoundCall("solve")
    \/ PlaceStep
    \/ RefineStep
    \/ SolveLoop

SpecSound == InitSound /\ [][NextSound]_vars

----------------------------------------------------------------------------
(* Specification SpecLate: Solver::new on the grid with a hidden single,     *)
(* then refine(), solve() and a Solver::set_digit on the cell of the hidden  *)
(* single, made before or after the deductions.                              *)

MaxLatePlacements == 5
\* r2c2, the only cell of square 0 left for 5, and the digits 5 and 7
LateCells == {20}
LateDigits == {5, 7}

InitLate ==
    /\ Holds(Solver_new(GridOf(HiddenSingleGivens)))
    /\ last = <<[op |-> "new", input |-> GridOf(HiddenSingleGivens)]>>
    /\ pc = <<>>
    /\ entry = <<>>
    /\ pv = PossibleValues_all
    /\ tally = DigitCounter_full
    /\ csv = NoCsv

LateSetDigit(cell, digit) ==
    /\ Idle
    /\ Len(placements) < MaxLatePlacements
    /\ \E r \in {Solver_set_digit(State, cell, digit)} : SetDigitReturn(cell, digit, r)
    /\ UNCHANGED <<pc, entry, pv, tally, csv>>

LateCall(op) ==
    /\ op # "solve" => Len(placements) <= MaxLatePlacements
    /\ Called(op)

NextLate ==
    \/ \E cell \in LateCells, digit \in LateDigits : LateSetDigit(cell, digit)
    \/ LateCall("refine")
    \/ LateCall("solve")
    \/ PlaceStep
    \/ RefineStep
    \/ SolveLoop

SpecLate == InitLate /\ [][NextLate]_vars

\* SpecLate with the scheduling of the code: a call that runs takes its next
\* loop iteration; the calls themselves are the caller's and are not forced.
SpecLateFair == SpecLate /\ WF_vars(PlaceStep) /\ WF_vars(RefineStep) /\ WF_vars(SolveLoop)

----------------------------------------------------------------------------
(* Specification SpecCounter: one DigitCounter, created by full() or by      *)
(* default(), and driven by arbitrary increment and decrement calls.         *)

MaxCounterDigit == 2
\* The counts are u8: the calls stop well before the type's range ends
MaxCount == 12
CounterDigits == 1 .. MaxCounterDigit

InitCounter ==
    /\ SolverIdle
    /\ pv = PossibleValues_all
    /\ tally \in {DigitCounter_full, DigitCounter_default}
    /\ csv = NoCsv
    /\ last = NoCall

\* The call `op` of the instance returned r.
CounterReturn(op, digit, r) ==
    /\ tally' = r.counter
    /\ panicked' = r.panic
    /\ last' = <<[op |-> op, digit |-> digit, before |-> tally]>>
    /\ UNCHANGED <<grid, analyzer, placer, placements, refinements, delivered, pc, entry, pv, csv>>

CounterIncrement(digit) ==
    /\ panicked = ""
    /\ DigitCounter_count(tally, digit) < MaxCount
    /\ CounterReturn("DigitCounter::increment", digit, DigitCounter_increment(tally, digit))

CounterDecrement(digit) ==
    /\ panicked = ""
    /\ CounterReturn("DigitCounter::decrement", digit, DigitCounter_decrement(tally, digit))

NextCounter ==
    \/ \E digit \in CounterDigits : CounterIncrement(digit)
    \/ \E digit \in CounterDigits : CounterDecrement(digit)

SpecCounter == InitCounter /\ [][NextCounter]_vars

----------------------------------------------------------------------------
(* bin/sudidakt/main.rs: parse_grid and parse_csv.                          *)
(* Specification SpecCsv: a CSV file of a few short lines is read with a     *)
(* range and a step, in automated mode (every problem is pulled) or in       *)
(* interactive mode (Problem::grid takes the first).  A line is the sequence *)
(* of its characters.                                                        *)

AsciiDigits == <<"0", "1", "2", "3", "4", "5", "6", "7", "8", "9">>

is_ascii_digit(byte) == \E i \in 1 .. Len(AsciiDigits) : AsciiDigits[i] = byte

\* byte - b'0'
DigitOfByte(byte) == (CHOOSE i \in 1 .. Len(AsciiDigits) : AsciiDigits[i] = byte) - 1

\* parse_grid: [grid, panic].  The bytes are taken in order: '0' and '.' leave
\* the next cell empty, '1' .. '9' fill it, ' ' is ignored, ',' ends the grid
\* and any other byte aborts.
RECURSIVE parse_grid_from(_, _, _, _)
parse_grid_from(line, at, index, g) ==
    IF at > Len(line) THEN [grid |-> g, panic |-> ""]
    ELSE LET byte == line[at] IN
         IF byte = "0" \/ byte = "." THEN parse_grid_from(line, at + 1, index + 1, g)
         ELSE IF is_ascii_digit(byte)
         THEN IF index >= NUMBER_CELLS
              THEN [grid |-> g, panic |-> "Valid index"]
              ELSE parse_grid_from(line, at + 1, index + 1,
                                   Grid_set_digit(g, index, DigitOfByte(byte)).grid)
         ELSE IF byte = " " THEN parse_grid_from(line, at + 1, index, g)
         ELSE IF byte = "," THEN [grid |-> g, panic |-> ""]
         ELSE [grid |-> g, panic |-> "Invalid character in grid definition"]

parse_grid(line) == parse_grid_from(line, 1, 0, Grid_default)

\* A variant of the predicate of skip_while: the line starts with neither a
\* digit nor a dot
SkipHeaderPredicate_NeitherDigitNorDot(line) ==
    LET first == line[1]
    IN ~is_ascii_digit(first) /\ first # "."

\* The predicate of skip_while, on a line that is not empty
SkipHeaderPredicate(line) ==
    LET first == line[1]
    IN ~is_ascii_digit(first) \/ first # "."

\* skip_while: [rest, panic], the lines from the first one the predicate
\* rejects; the predicate indexes the first byte of each line it is asked
\* about, which aborts on an empty line.
RECURSIVE SkipHeader(_)
SkipHeader(lines) ==
    IF lines = <<>> THEN [rest |-> <<>>, panic |-> ""]
    ELSE IF Head(lines) = <<>>
    THEN [rest |-> lines, panic |-> "index out of bounds: the len is 0 but the index is 0"]
    ELSE IF SkipHeaderPredicate(Head(lines)) THEN SkipHeader(Tail(lines))
    ELSE [rest |-> lines, panic |-> ""]

\* parse_csv: the iterator, which has read nothing yet.  enumerate numbers
\* the lines skip_while lets through from 0, skip and take keep the numbers
\* of the range, and step_by starts at the first of them.
parse_csv(lines, range, step) ==
    [lines |-> lines, range |-> range, step |-> step,
     position |-> range.start, yielded |-> <<>>, ended |-> FALSE]

\* One next() of the iterator: [csv, item, panic], item = <<>> for None.
\* The number wanted is the iterator's position; outside the range nothing
\* is read.  Otherwise the lines are pulled through skip_while up to that
\* number and the line is parsed.
parse_csv_next(it) ==
    IF it.position >= it.range.end
    THEN [csv |-> [it EXCEPT !.ended = TRUE], item |-> <<>>, panic |-> ""]
    ELSE LET skipped == SkipHeader(it.lines) IN
         IF skipped.panic # "" THEN [csv |-> it, item |-> <<>>, panic |-> skipped.panic]
         ELSE IF it.position >= Len(skipped.rest)
         THEN [csv |-> [it EXCEPT !.ended = TRUE], item |-> <<>>, panic |-> ""]
         ELSE LET parsed == parse_grid(skipped.rest[it.position + 1])
                  item == <<it.position, parsed.grid>>
              IN IF parsed.panic # "" THEN [csv |-> it, item |-> <<>>, panic |-> parsed.panic]
                 ELSE [csv |-> [it EXCEPT !.position = @ + it.step,
                                          !.yielded = Append(@, item)],
                       item |-> <<item>>, panic |-> ""]

MaxCsvLines == 3
MaxLineLen == 1
MaxCsvStep == 2
CsvBytes == {"p", "5", "7", "."}
CsvLine == UNION {[1 .. n -> CsvBytes] : n \in 0 .. MaxLineLen}
CsvFiles == UNION {[1 .. n -> CsvLine] : n \in 0 .. MaxCsvLines}
\* --range START END and --line LINE, START <= END
CsvRanges == {[start |-> s, end |-> e] : s \in 0 .. MaxCsvLines, e \in 0 .. MaxCsvLines + 1} 

InitCsv ==
    /\ SolverIdle
    /\ pv = PossibleValues_all
    /\ tally = DigitCounter_full
    /\ last = NoCall
    /\ \E lines \in CsvFiles, range \in CsvRanges, step \in 1 .. MaxCsvStep :
            /\ range.start <= range.end
            /\ csv = parse_csv(lines, range, step)

CsvReturn(op, r, panic) ==
    /\ csv' = r.csv
    /\ panicked' = panic
    /\ last' = <<[op |-> op, before |-> csv, ret |-> r.item]>>
    /\ UNCHANGED <<grid, analyzer, placer, placements, refinements, delivered, pc, entry, pv, tally>>

\* automated::run: the for loop pulls the next problem, until None
AutomatedNext ==
    /\ panicked = ""
    /\ ~csv.ended
    /\ \E r \in {parse_csv_next(csv)} : CsvReturn("next", r, r.panic)

\* Problem::grid, of the interactive mode: parse_csv(..).next().unwrap() on
\* a fresh iterator of a range of one problem
Problem_grid ==
    /\ panicked = ""
    /\ csv.yielded = <<>> /\ ~csv.ended
    /\ csv.range.end - csv.range.start = 1
    /\ \E r \in {parse_csv_next(csv)} :
            CsvReturn("grid", [r EXCEPT !.csv.ended = (r.panic = "")],
                      IF r.panic = "" /\ r.item = <<>>
                      THEN "called Option::unwrap() on a None value" ELSE r.panic)

NextCsv == AutomatedNext \/ Problem_grid

SpecCsv == InitCsv /\ [][NextCsv]_vars

----------------------------------------------------------------------------
(* The properties *)

\* The cells of each group and the index of its counters, by group number
GroupCellSets ==
    [g \in GroupIndexes |-> {Group_cells(Group_new(g))[i] : i \in 1 .. DIMENSION}]
GroupCounterIndex == [g \in GroupIndexes |-> PossibleValues_group_index(Group_new(g))]

CountersMatch(values) ==
    \A g \in GroupIndexes, digit \in Digits :
        values.group_counters[GroupCounterIndex[g]][digit]
            = Cardinality({cell \in GroupCellSets[g] : digit \in values.cells[cell]})

\* C1: in every reachable state of the Analyzer's and of the Placer's
\* PossibleValues, for every group g and digit d the counter
\* of_group(g).count(d) is the number of cells of g whose candidate set
\* contains d.
C1_CountersMatchCells ==
    /\ CountersMatch(analyzer.possible_values)
    /\ CountersMatch(placer.possible_values)

\* C1 witness: the Analyzer has removed candidates with GroupOverlap after
\* resolving cells, and the Placer has applied every refinement.
C1_Witness ==
    /\ panicked = ""
    /\ \E i \in 1 .. Len(refinements) : refinements[i].reason[1] = "GroupOverlap"
    /\ Len(delivered.placer) = Len(refinements)
    /\ analyzer.possible_values # PossibleValues_all
    /\ placer.possible_values # PossibleValues_all

\* C2: whenever the Placer has consumed every refinement and the Analyzer
\* has consumed every placement and every refinement with all five analyses,
\* the two PossibleValues are identical, cell by cell and counter by counter.
C2_SameValuesWhenDone ==
    (Placer_is_done(State) /\ Analyzer_is_done(State))
        => analyzer.possible_values = placer.possible_values

\* C2 witness: both are done after the Placer has placed the 5 of r2c2, which
\* no input grid gives and set_digit never sets.
C2_Witness ==
    /\ panicked = ""
    /\ Placer_is_done(State) /\ Analyzer_is_done(State)
    /\ Len(refinements) > 0
    /\ \E i \in 1 .. Len(placements) : placements[i] = Placement_new(20, 5)

\* The cells that share a row, a column or a square with cell
Peers(cell) ==
    {c \in CellIndexes \ {cell} :
        \/ CellIndex_row(c) = CellIndex_row(cell)
        \/ CellIndex_column(c) = CellIndex_column(cell)
        \/ CellIndex_square(c) = CellIndex_square(cell)}

SetDigitCalls == {i \in 1 .. Len(last) : last[i].op = "set_digit"}

ConflictRejected(call) ==
    /\ call.ret[1] = "Err"
    /\ call.ret[2].candidate = call.cell
    /\ call.ret[2].digit = call.digit
    /\ call.ret[2].conflicting \in Peers(call.cell)
    /\ Grid_get_digit(call.entry.grid, call.ret[2].conflicting) = call.digit
    /\ Snapshot(State) = call.entry

\* C3: when a peer of cell already holds digit in the Grid, set_digit(cell,
\* digit) returns a ConflictError that names cell, digit and a peer holding
\* digit, and the Grid, the journals, the two PossibleValues and every cursor
\* are as they were before the call.
C3_ConflictMutatesNothing ==
    \A i \in SetDigitCalls :
        (\E c \in Peers(last[i].cell) : Grid_get_digit(last[i].entry.grid, c) = last[i].digit)
            => ConflictRejected(last[i])

\* C3 witness: r0c0 holds 5 and set_digit(r0c1, 5) has reported r0c0.
C3_Witness ==
    /\ Grid_get_digit(grid, 0) = 5
    /\ \E i \in SetDigitCalls :
        /\ last[i].cell = 1 /\ last[i].digit = 5
        /\ last[i].ret = <<"Err", ConflictError(5, 1, 0)>>

Full(g) == \A cell \in CellIndexes : Grid_get_digit(g, cell) # None

SolveReturns == {i \in 1 .. Len(last) : last[i].op = "solve"}

\* C4: solve() returns Ok exactly when every one of the 81 cells of the Grid
\* holds a digit as it returns, and Err otherwise; on a Grid that is already
\* full it returns Ok with the journals and every cursor as they were.
C4_SolveOkIffFull ==
    \A i \in SolveReturns :
        /\ last[i].ret \in {"Ok", "Err"}
        /\ last[i].ret = "Ok" <=> Full(grid)
        /\ Full(last[i].entry.grid) => (last[i].ret = "Ok" /\ Snapshot(State) = last[i].entry)

\* C4 witness: solve() has returned Ok on a Grid that was not full when it
\* was called.
C4_Witness ==
    \E i \in SolveReturns : last[i].ret = "Ok" /\ ~Full(last[i].entry.grid)

PlacerCaughtUp == placer.refinements = Len(refinements)

AnalyzerCaughtUp ==
    /\ \A i \in DOMAIN analyzer.placements_cursors : analyzer.placements_cursors[i] = Len(placements)
    /\ \A i \in DOMAIN analyzer.refinements_cursors : analyzer.refinements_cursors[i] = Len(refinements)

Returned(op, ret) == {i \in 1 .. Len(last) : last[i].op = op /\ last[i].ret = ret}

\* C5: when solve() returns Err the Grid is not full, the Placer's cursor is
\* at the end of the refinement journal and the ten cursors of the Analyzer
\* are at the end of their journals; place() returns Err only when the
\* Placer is done, refine() only when the Analyzer is done.
C5_StalledOnlyWhenDone ==
    /\ Returned("solve", "Err") # {} =>
        (~Full(grid) /\ PlacerCaughtUp /\ AnalyzerCaughtUp
            /\ Cardinality(DOMAIN analyzer.placements_cursors)
                + Cardinality(DOMAIN analyzer.refinements_cursors) = 10)
    /\ Returned("place", "Err") # {} => PlacerCaughtUp
    /\ Returned("refine", "Err") # {} => AnalyzerCaughtUp

\* C5 witness: solve() has stalled after the 5 of r2c2 was deduced and placed.
C5_Witness ==
    /\ Returned("solve", "Err") # {}
    /\ Returned("refine", "Err") # {}
    /\ Grid_get_digit(grid, 20) = 5
    /\ Len(refinements) > 0

\* after has no candidate and no count that before has not
Shrunk(before, after) ==
    /\ \A cell \in CellIndexes : after.cells[cell] \subseteq before.cells[cell]
    /\ \A g \in GroupIndexes, digit \in Digits :
        after.group_counters[g][digit] <= before.group_counters[g][digit]

\* C6: no operation of the engine adds a digit to the candidate set of a
\* cell, in either PossibleValues: Solver::new starts from all(), and every
\* step of set_digit, place, refine and solve (each analyze and each
\* handle_next_refinement) leaves each candidate set a subset of what it was
\* and each group counter at most what it was.
C6_CandidatesOnlyShrink ==
    /\ Shrunk(PossibleValues_all, analyzer.possible_values)
    /\ Shrunk(PossibleValues_all, placer.possible_values)
    /\ [][/\ Shrunk(analyzer.possible_values, analyzer.possible_values')
          /\ Shrunk(placer.possible_values, placer.possible_values')]_vars

\* C6 witness: in both PossibleValues some cell has lost candidates without
\* being resolved, and r2c2 is down to the 5 that was deduced.
C6_Witness ==
    /\ panicked = ""
    /\ \E cell \in CellIndexes : Cardinality(analyzer.possible_values.cells[cell]) \in 2 .. (DIMENSION - 1)
    /\ \E cell \in CellIndexes : Cardinality(placer.possible_values.cells[cell]) \in 2 .. (DIMENSION - 1)
    /\ placer.possible_values.cells[20] = {5}
    /\ analyzer.possible_values.cells[20] = {5}

PVCalls(op) == {i \in 1 .. Len(last) : last[i].op = op}

\* C7: resolve(cell, d), called when d is a candidate of cell, leaves
\* of_cell(cell) = {d}, returns the candidate set cell had before the call
\* minus {d}, and leaves the candidate set of every other cell as it was.
C7_ResolveLeavesDigit ==
    \A i \in PVCalls("resolve") :
        last[i].digit \in last[i].before.cells[last[i].cell] =>
            /\ panicked = ""
            /\ PossibleValues_of_cell(pv, last[i].cell) = {last[i].digit}
            /\ last[i].ret = last[i].before.cells[last[i].cell] \ {last[i].digit}
            /\ \A other \in CellIndexes \ {last[i].cell} :
                PossibleValues_of_cell(pv, other) = last[i].before.cells[other]

\* C7 witness: resolve has removed at least two digits from a cell that had
\* already lost one.
C7_Witness ==
    \E i \in PVCalls("resolve") :
        /\ last[i].before.cells[last[i].cell] # Digits
        /\ Cardinality(last[i].ret) >= 2
        /\ pv.cells[last[i].cell] = {last[i].digit}

\* The counters of d in the three groups of cell are one below what they were
CountersDropped(before, after, cell, digit) ==
    \A k \in 1 .. 3 :
        PossibleValues_of_group(after, Group_groups(cell)[k])[digit]
            = PossibleValues_of_group(before, Group_groups(cell)[k])[digit] - 1

RemovedOnce(call) ==
    /\ panicked = ""
    /\ PossibleValues_of_cell(pv, call.cell) = call.before.cells[call.cell] \ {call.digit}
    /\ CountersDropped(call.before, pv, call.cell, call.digit)
    /\ call.ret = call.digit

\* C8: remove_possibility(cell, d) removes d when it is a candidate, drops
\* the counter of d in each of the three groups of cell by one and returns d;
\* when d is not a candidate it returns None and changes no candidate set and
\* no counter.
C8_RemoveIdempotent ==
    \A i \in PVCalls("remove_possibility") :
        IF last[i].digit \in last[i].before.cells[last[i].cell]
        THEN RemovedOnce(last[i])
        ELSE last[i].ret = None /\ pv = last[i].before /\ panicked = ""

\* C8 witness: remove_possibility has been called for a digit that an
\* earlier call had taken out of the cell.
C8_Witness ==
    \E i \in PVCalls("remove_possibility") :
        /\ last[i].digit \notin last[i].before.cells[last[i].cell]
        /\ last[i].ret = None
        /\ last[i].before.group_counters # PossibleValues_all.group_counters

\* C9: both journals are append-only: across every step of the Solver the
\* placement journal and the refinement journal keep what they held as a
\* prefix of what they hold, and what each cursor has been handed, in order,
\* is a prefix of the one journal it reads.
C9_JournalsAppendOnly ==
    /\ [](/\ IsPrefix(delivered.placer, refinements)
          /\ \A i \in CursorIndexes :
                /\ IsPrefix(delivered.placements_cursors[i], placements)
                /\ IsPrefix(delivered.refinements_cursors[i], refinements))
    /\ [][IsPrefix(placements, placements') /\ IsPrefix(refinements, refinements')]_vars

\* C9 witness: both journals have grown since Solver::new (a deduced
\* Placement, refinements) and a cursor of the Analyzer is part-way through.
C9_Witness ==
    /\ \E i \in 1 .. Len(placements) : placements[i] = Placement_new(20, 5)
    /\ delivered.placer # <<>>
    /\ \E i \in CursorIndexes :
        /\ analyzer.refinements_cursors[i] > 0
        /\ analyzer.refinements_cursors[i] < Len(refinements)

\* What one call of handle_next may do to a cursor: nothing (no event, or not
\* called), or hand over the event at the position and move on by one; a
\* handler that panics has been handed the event and the position stays.
CursorStep(position, positionAfter, handed, handedAfter, journalAfter, panickedAfter) ==
    \/ positionAfter = position /\ handedAfter = handed
    \/ /\ position < Len(journalAfter)
       /\ handedAfter = Append(handed, journalAfter[position + 1])
       /\ positionAfter = IF panickedAfter = "" THEN position + 1 ELSE position

\* Each cursor has been handed the entries before its position, once each
ExactlyOnceInOrder ==
    /\ delivered.placer = SubSeq(refinements, 1, placer.refinements)
    /\ \A i \in CursorIndexes :
        /\ delivered.placements_cursors[i] = SubSeq(placements, 1, analyzer.placements_cursors[i])
        /\ delivered.refinements_cursors[i] = SubSeq(refinements, 1, analyzer.refinements_cursors[i])

\* The calls the code is sure to make: the Placer's cursor in each iteration
\* of place(), the first cursor of the Analyzer in each analyze().
PlacerCalled ==
    Running("place") /\ placer.refinements # Len(refinements) =>
        /\ delivered'.placer = Append(delivered.placer, refinements[placer.refinements + 1])
        /\ panicked' = "" =>
            /\ placer'.refinements = placer.refinements + 1
            /\ last'[1].op = "handle_next_refinement"
            /\ placements' = placements \o last'[1].ret

FirstCursorCalled ==
    Running("refine") /\ ~AnalyzerCaughtUp =>
        IF analyzer.placements_cursors[0] < Len(placements)
        THEN /\ delivered'.placements_cursors[0]
                    = Append(delivered.placements_cursors[0], placements[analyzer.placements_cursors[0] + 1])
             /\ panicked' = "" => analyzer'.placements_cursors[0] = analyzer.placements_cursors[0] + 1
        ELSE /\ delivered'.placements_cursors[0] = delivered.placements_cursors[0]
             /\ analyzer'.placements_cursors[0] = analyzer.placements_cursors[0]

CursorsAt(s) ==
    {<<s.placer.refinements, s.refinements>>}
        \cup {<<s.analyzer.placements_cursors[i], s.placements>> : i \in CursorIndexes}
        \cup {<<s.analyzer.refinements_cursors[i], s.refinements>> : i \in CursorIndexes}

\* C11: is_done() of a cursor is true exactly when its position is the
\* current length of its journal, and no position exceeds that length; it is
\* not stable: when the journal grows while a done cursor stays where it is,
\* is_done() is false afterwards.
C11_IsDoneAtJournalEnd ==
    /\ [](\A c \in CursorsAt(State) :
            /\ JournalCursor_is_done(c[1], c[2]) <=> c[1] = Len(c[2])
            /\ c[1] <= Len(c[2]))
    /\ [][/\ (Placer_is_done(State) /\ Len(refinements') > Len(refinements)
                    /\ placer'.refinements = placer.refinements)
                => ~JournalCursor_is_done(placer'.refinements, refinements')
          /\ \A i \in CursorIndexes :
                (JournalCursor_is_done(analyzer.placements_cursors[i], placements)
                    /\ Len(placements') > Len(placements)
                    /\ analyzer'.placements_cursors[i] = analyzer.placements_cursors[i])
                => ~JournalCursor_is_done(analyzer'.placements_cursors[i], placements')]_vars

\* C11 witness: refine() was called with the Placer done and has returned Ok:
\* the refinements it appended have made the Placer not done again.
C11_Witness ==
    \E i \in Returned("refine", "Ok") :
        /\ last[i].entry.placer.refinements = Len(last[i].entry.refinements)
        /\ Len(last[i].entry.refinements) > 0
        /\ ~Placer_is_done(State)
        /\ placer.refinements = Len(last[i].entry.refinements)

\* cursors after differs from cursors before at position index at most, and
\* there by one step at most
OnlyPosition(before, after, index) ==
    /\ \A j \in CursorIndexes \ {index} : after[j] = before[j]
    /\ after[index] \in {before[index], before[index] + 1}

\* C12: the positions of a JournalMultiCursor are independent: in every
\* reachable state, handle_next for the position of one analysis, on the
\* placement journal or on the refinement journal, changes that position at
\* most and leaves the four others as they were.
C12_PositionsIndependent ==
    panicked = "" =>
        \A i \in CursorIndexes :
            /\ OnlyPosition(analyzer.placements_cursors,
                    Analyzer_analyze_next_placement_with(State, ALL_ANALYSES[i + 1]).s.analyzer.placements_cursors,
                    Analyzer_cursor_index(ALL_ANALYSES[i + 1]))
            /\ OnlyPosition(analyzer.refinements_cursors,
                    Analyzer_analyze_next_refinement_with(State, ALL_ANALYSES[i + 1]).s.analyzer.refinements_cursors,
                    Analyzer_cursor_index(ALL_ANALYSES[i + 1]))

\* C12 witness: the five positions over the refinement journal stand at
\* three different places at least, and the last one has an event to handle.
C12_Witness ==
    /\ panicked = ""
    /\ Cardinality({analyzer.refinements_cursors[i] : i \in CursorIndexes}) >= 3
    /\ analyzer.refinements_cursors[NUMBER_ANALYSIS - 1] < Len(refinements)
    /\ analyzer.refinements_cursors[NUMBER_ANALYSIS - 1] > 0

\* The ten analysis/stream steps in the claimed order: step 2a + 1 is the
\* placement of the analysis numbered a, step 2a + 2 its refinement.
\* CellExclusion and GroupExclusion append when they handle a placement, the
\* three others when they handle a refinement.
StepPosition(a, j) ==
    IF j % 2 = 1 THEN a.placements_cursors[(j - 1) \div 2] ELSE a.refinements_cursors[(j - 2) \div 2]

StepOfReason(tag) ==
    CASE tag = "CellExclusion" -> 1
      [] tag = "GroupExclusion" -> 3
      [] tag = "GroupInclusion" -> 6
      [] tag = "GroupOverlap" -> 8
      [] tag = "GroupSubsetInclusion" -> 10

\* What analyze() made of the Analyzer: every step up to the step `stop` has
\* handled its pending event if it had one, no step after it has moved.
VisitedUpTo(stop, a, aAfter, p, r) ==
    \A j \in 1 .. 10 :
        StepPosition(aAfter, j) =
            IF j <= stop /\ StepPosition(a, j) < (IF j % 2 = 1 THEN Len(p) ELSE Len(r))
            THEN StepPosition(a, j) + 1
            ELSE StepPosition(a, j)

AnalyzeOutcome(a, aAfter, p, r, rAfter, returned) ==
    /\ returned = <<[op |-> "analyze", ret |-> Len(rAfter) - Len(r)]>>
         \/ (Len(returned) = 2 /\ returned[1] = [op |-> "analyze", ret |-> Len(rAfter) - Len(r)])
    /\ IF Len(rAfter) = Len(r)
       THEN VisitedUpTo(10, a, aAfter, p, r)
       ELSE /\ \A n \in (Len(r) + 1) .. Len(rAfter) :
                    StepOfReason(rAfter[n].reason[1]) = StepOfReason(rAfter[Len(rAfter)].reason[1])
            /\ VisitedUpTo(StepOfReason(rAfter[Len(rAfter)].reason[1]), a, aAfter, p, r)

PendingRefinement == refinements[placer.refinements + 1]

\* What the Placer's cell of the pending refinement holds once the removed
\* digit is taken out
LeftAfterRemoval ==
    PossibleValues_of_cell(placer.possible_values, PendingRefinement.cell) \ {PendingRefinement.removed}

HandleNextRefinementCases ==
    /\ placer'.refinements = placer.refinements + 1
    /\ last' # <<>> /\ last'[1].op = "handle_next_refinement"
    /\ PendingRefinement.removed \notin PossibleValues_of_cell(placer.possible_values, PendingRefinement.cell)
        => /\ last'[1].ret = <<>>
           /\ placer'.possible_values = placer.possible_values
           /\ placements' = placements
           /\ UNCHANGED <<grid, analyzer, refinements>>
    /\ Cardinality(LeftAfterRemoval) > 1
        => /\ last'[1].ret = <<>>
           /\ placements' = placements
    /\ (/\ PendingRefinement.removed \in PossibleValues_of_cell(placer.possible_values, PendingRefinement.cell)
        /\ Cardinality(LeftAfterRemoval) = 1)
        => /\ placements' = Append(placements, Placement_new(PendingRefinement.cell, Ascending(LeftAfterRemoval)[1]))
           /\ last'[1].ret = <<Placement_new(PendingRefinement.cell, Ascending(LeftAfterRemoval)[1])>>

\* C14: Placer::handle_next_refinement() with no pending refinement returns no
\* placement and changes nothing; with a pending refinement its cursor
\* advances by exactly one and (a) a digit that was already absent changes
\* nothing else and returns no placement, (b) more than one candidate left
\* returns no placement, (c) exactly one candidate d left appends
\* Placement(cell, d) to the placement journal and returns it.
C14_HandleNextRefinement ==
    /\ []((panicked = "" /\ Placer_is_done(State))
            => Placer_handle_next_refinement(State) = [s |-> State, ret |-> <<>>])
    /\ [][(Running("place") /\ ~Placer_is_done(State)) => HandleNextRefinementCases]_vars

(* C15 *)

\* place() returned Ok: one placement more than at its entry, written into
\* the Grid, which differs from the Grid at entry in that cell alone
PlacedOne(before) ==
    /\ Len(placements) = Len(before.placements) + 1
    /\ SubSeq(placements, 1, Len(before.placements)) = before.placements
    /\ Grid_get_digit(grid, placements[Len(placements)].cell) = placements[Len(placements)].digit
    /\ Grid_number_solved(grid) = Grid_number_solved(before.grid) + 1
    /\ \A cell \in CellIndexes \ {placements[Len(placements)].cell} :
            Grid_get_digit(grid, cell) = Grid_get_digit(before.grid, cell)
    /\ placer.refinements > before.placer.refinements

\* C15: Solver::place() stops at the first pending refinement that yields a
\* placement: on Ok exactly one Placement(c, d) was appended, the Grid holds d
\* in c and number_solved grew by exactly one; on Err(ProgressStalled) the
\* Placer is done and the Grid and the placement journal are as at the call.
C15_PlaceOutcome ==
    /\ \A i \in Returned("place", "Ok") : PlacedOne(last[i].entry)
    /\ \A i \in Returned("place", "Err") :
            /\ PlacerCaughtUp
            /\ grid = last[i].entry.grid
            /\ placements = last[i].entry.placements

\* C15 witness: place() has returned Ok after it consumed several refinements
\* that yielded nothing and one that left a single candidate.
C15_Witness ==
    \E i \in Returned("place", "Ok") :
        /\ placer.refinements > last[i].entry.placer.refinements + 1
        /\ Grid_get_digit(last[i].entry.grid, placements[Len(placements)].cell) = None
        /\ Grid_get_digit(grid, placements[Len(placements)].cell) # None

(* C16 *)

\* The last analyze() call of the refine() that returned with record i of last
LastAnalyze(i) == IF i > 1 /\ last[i - 1].op = "analyze" THEN last[i - 1].ret ELSE 0

\* C16: Solver::refine() returns Ok exactly when one of its analyze() calls
\* appended at least one refinement, and it stops at that first call; it
\* returns Err(ProgressStalled) exactly when the Analyzer became done without
\* any refinement being appended during the call.
C16_RefineOutcome ==
    /\ [](/\ \A i \in Returned("refine", "Ok") :
                /\ Len(refinements) > Len(last[i].entry.refinements)
                /\ LastAnalyze(i) = Len(refinements) - Len(last[i].entry.refinements)
          /\ \A i \in Returned("refine", "Err") :
                /\ AnalyzerCaughtUp
                /\ refinements = last[i].entry.refinements)
    /\ [][(Running("refine") /\ panicked' = "")
            => /\ Len(refinements') > Len(refinements)
                    => \E i \in 1 .. Len(last') : last'[i].op = "refine" /\ last'[i].ret = "Ok"
               /\ (Len(refinements') = Len(refinements) /\ Analyzer_is_done(State))
                    => \E i \in 1 .. Len(last') : last'[i].op = "refine" /\ last'[i].ret = "Err"
               /\ (Len(refinements') = Len(refinements) /\ ~Analyzer_is_done(State))
                    => /\ pc' = pc
                       /\ \A i \in 1 .. Len(last') : last'[i].op = "analyze"]_vars

\* C16 witness: refine() has returned Ok on the analyze() call that appended
\* refinements to a journal that already held some.
C16_Witness ==
    \E i \in Returned("refine", "Ok") :
        /\ Len(last[i].entry.refinements) > 0
        /\ LastAnalyze(i) > 0
        /\ Len(refinements) = Len(last[i].entry.refinements) + LastAnalyze(i)

(* C17 *)

\* The cells that hold a digit in g
Givens(g) == {cell \in CellIndexes : Grid_get_digit(g, cell) # None}

\* One placement for each given of g, in ascending cell order
GivenPlacements(g) ==
    [i \in 1 .. Cardinality(Givens(g)) |->
        Placement_new(Ascending(Givens(g))[i], Grid_get_digit(g, Ascending(Givens(g))[i]))]

\* C17: after Solver::new(grid) the placement journal holds exactly one
\* Placement(c, d) for each cell c that holds d in the input grid, in
\* ascending cell order, the refinement journal is empty, the Placer's
\* candidate set of each given cell is {d}, and the Grid is the input grid.
C17_NewSeedsPlacements ==
    (last # <<>> /\ last[1].op = "new") =>
        /\ panicked = ""
        /\ placements = GivenPlacements(last[1].input)
        /\ refinements = <<>>
        /\ \A cell \in Givens(last[1].input) :
                PossibleValues_of_cell(placer.possible_values, cell) = {Grid_get_digit(last[1].input, cell)}
        /\ grid = last[1].input

\* C17 witness: Solver::new on a grid whose givens lie in several rows.
C17_Witness ==
    /\ last # <<>> /\ last[1].op = "new"
    /\ Cardinality({CellIndex_row(cell) : cell \in Givens(grid)}) >= 4
    /\ Len(placements) >= 4

(* C18 *)

\* The step is a call of Solver::set_digit: the only step that starts and
\* ends with no call running
SetDigitStep == Idle /\ pc' = <<>>

\* C18: Solver::set_digit(cell, digit) checks only direct duplicates: whenever
\* no peer of the cell holds the digit in the Grid the call returns Ok, writes
\* the digit into the Grid and appends Placement(cell, digit), and it never
\* aborts.
C18_SetDigitNeverAborts ==
    [][SetDigitStep =>
        /\ panicked' = ""
        /\ last' # <<>> /\ last'[1].op = "set_digit"
        /\ Grid_get_conflicting(grid, last'[1].cell, last'[1].digit) = NoCell
            => /\ last'[1].ret = <<"Ok">>
               /\ Grid_get_digit(grid', last'[1].cell) = last'[1].digit
               /\ placements' = Append(placements, Placement_new(last'[1].cell, last'[1].digit))]_vars

(* C19 *)

\* Every cell of values has a candidate
NoEmptyCell(values) == \A cell \in CellIndexes : PossibleValues_of_cell(values, cell) # {}

\* C19: no cell's candidate set ever becomes empty, in the Analyzer's or in
\* the Placer's PossibleValues, in any state reachable through Solver::new,
\* set_digit, place, refine and solve.
C19_NoEmptyCandidateSet ==
    /\ NoEmptyCell(analyzer.possible_values)
    /\ NoEmptyCell(placer.possible_values)

(* C20 *)

\* The call op is running, alone or under solve()
InCall(op) == \E i \in 1 .. Len(pc) : pc[i] = op

\* C20: every operation runs to completion: for every input Grid a solve()
\* call returns (Ok or Err) after finitely many place() and refine() steps,
\* and each place() and each refine() call returns.
C20_CallsReturn ==
    \A op \in {"solve", "place", "refine"} : InCall(op) ~> ~InCall(op)

\* No call runs forever: each one returns or is cut short by a panic.
CallsReturnOrAbort ==
    \A op \in {"solve", "place", "refine"} : InCall(op) ~> (~InCall(op) \/ panicked # "")

(* C21 *)

\* A second Solver in the state that the call of record `call` started from
SecondSolver(call) ==
    [grid |-> call.entry.grid, analyzer |-> call.entry.analyzer, placer |-> call.entry.placer,
     placements |-> call.entry.placements, refinements |-> call.entry.refinements,
     panicked |-> "", delivered |-> delivered]

OneCellLeft(g, cell) ==
    /\ Grid_get_digit(g, cell) = None
    /\ Givens(g) = CellIndexes \ {cell}
    /\ Cardinality({Grid_get_digit(g, peer) : peer \in Peers(cell)}) = DIMENSION - 1

\* The digit that the peers of the cell do not hold
MissingDigit(g, cell) ==
    CHOOSE digit \in Digits : \A peer \in Peers(cell) : Grid_get_digit(g, peer) # digit

\* solve() has returned Ok with the missing digit in the cell and the other
\* cells as they were in g.
LastCellSolved(i, g, cell) ==
    /\ last[i].ret = "Ok"
    /\ Grid_get_digit(grid, cell) = MissingDigit(g, cell)
    /\ \A other \in CellIndexes \ {cell} : Grid_get_digit(grid, other) = Grid_get_digit(g, other)

\* C22: on every Grid with exactly one empty cell whose row, column and
\* square hold the other 8 digits, solve() is not cut short and returns Ok
\* with the missing digit in the formerly empty cell and every given cell
\* as it was.
C22_LastCellSolved ==
    \A cell \in CellIndexes :
        /\ \A i \in SolveReturns :
                OneCellLeft(last[i].entry.grid, cell) => LastCellSolved(i, last[i].entry.grid, cell)
        /\ (InCall("solve") /\ OneCellLeft(entry[1].grid, cell)) => panicked = ""

\* The same on the grids whose givens hold no digit twice in a group.
NoDuplicate(g) ==
    \A cell \in Givens(g) : Grid_get_conflicting(g, cell, Grid_get_digit(g, cell)) = NoCell

LastCellSolvedWithoutDuplicate ==
    \A cell \in CellIndexes :
        /\ \A i \in SolveReturns :
                OneCellLeft(last[i].entry.grid, cell) => LastCellSolved(i, last[i].entry.grid, cell)
        /\ (InCall("solve") /\ OneCellLeft(entry[1].grid, cell) /\ NoDuplicate(entry[1].grid))
                => panicked = ""

\* solve() returned Ok after it filled the one empty cell of a grid without
\* duplicates.
LastCellSolvedReached ==
    \E cell \in CellIndexes, i \in SolveReturns :
        /\ OneCellLeft(last[i].entry.grid, cell)
        /\ LastCellSolved(i, last[i].entry.grid, cell)

(* C23 *)

\* The Solver that Solver::new builds from the empty Grid
EmptySolver == Snapshot(Solver_new(Grid_default))

NothingDelivered ==
    /\ delivered.placer = <<>>
    /\ \A i \in CursorIndexes :
        delivered.placements_cursors[i] = <<>> /\ delivered.refinements_cursors[i] = <<>>

\* C23: on the completely empty Grid solve() returns Err(ProgressStalled)
\* at once: no handler is invoked, nothing is appended to either journal, no
\* cursor moves, every cell keeps its 9 candidates in the Analyzer and in
\* the Placer, and the Grid stays empty.
C23_EmptyGridStalls ==
    /\ \A i \in SolveReturns :
        last[i].entry = EmptySolver =>
            /\ last[i].ret = "Err"
            /\ placements = <<>> /\ refinements = <<>>
            /\ NothingDelivered
            /\ placer.refinements = 0
            /\ \A c \in CursorIndexes :
                analyzer.placements_cursors[c] = 0 /\ analyzer.refinements_cursors[c] = 0
            /\ \A cell \in CellIndexes :
                /\ PossibleValues_of_cell(analyzer.possible_values, cell) = Digits
                /\ PossibleValues_of_cell(placer.possible_values, cell) = Digits
                /\ Grid_get_digit(grid, cell) = None
            /\ Grid_number_solved(grid) = 0
    /\ (InCall("solve") /\ entry[1] = EmptySolver) =>
            (panicked = "" /\ Snapshot(State) = EmptySolver /\ NothingDelivered)

\* C23 witness: solve() has returned on the Solver of the empty Grid, after
\* one place() and one refine().
C23_Witness ==
    /\ \E i \in SolveReturns : last[i].entry = EmptySolver /\ last[i].ret = "Err"
    /\ Returned("refine", "Err") # {}
    /\ grid = Grid_default

(* C24 *)

\* The cells of the group that hold the digit
Holders(values, group, digit) ==
    {cell \in CellsOf(group) : digit \in PossibleValues_of_cell(values, cell)}

\* The groups H of the claim for the group G: the cells of G that hold the
\* digit are 1 to 3 and lie all in H, a group of another type.
PointedGroups(values, G, digit) ==
    IF Cardinality(Holders(values, G, digit)) \notin 1 .. SQUARE_DIMENSION THEN {}
    ELSE {H \in AllGroups : H.kind # G.kind /\ Holders(values, G, digit) \subseteq CellsOf(H)}

\* The refinements appended between the contexts pre and post
Appended(pre, post) ==
    SubSeq(post.refinements, Len(pre.refinements) + 1, Len(post.refinements))

\* What the claim says of the group G, examined in the context pre and left
\* in the context post.
OverlapClaim(pre, post, G, digit) ==
    \A H \in PointedGroups(pre.pv, G, digit) :
        /\ \A cell \in CellsOf(H) \ CellsOf(G) :
            /\ digit \notin PossibleValues_of_cell(post.pv, cell)
            /\ digit \in PossibleValues_of_cell(pre.pv, cell) =>
                    /\ Cardinality({i \in 1 .. Len(Appended(pre, post)) :
                                        Appended(pre, post)[i].cell = cell}) = 1
                    /\ \E i \in 1 .. Len(Appended(pre, post)) :
                        /\ Appended(pre, post)[i].cell = cell
                        /\ Appended(pre, post)[i].removed = digit
                        /\ Appended(pre, post)[i].reason[1] = "GroupOverlap"
                        /\ Appended(pre, post)[i].reason[2] = G
                        /\ Appended(pre, post)[i].reason[3] \in PointedGroups(pre.pv, G, digit)
                        /\ Group_contains(Appended(pre, post)[i].reason[3], cell)
        /\ \A i \in 1 .. Len(Appended(pre, post)) :
                Appended(pre, post)[i].reason = <<"GroupOverlap", G, H>> =>
                    /\ Appended(pre, post)[i].cell \in CellsOf(H) \ CellsOf(G)
                    /\ digit \in PossibleValues_of_cell(pre.pv, Appended(pre, post)[i].cell)
        /\ Len(Appended(pre, post))
                = Cardinality({cell \in CellIndexes :
                                PossibleValues_of_cell(post.pv, cell) # PossibleValues_of_cell(pre.pv, cell)})
        /\ \A cell \in CellsOf(G) :
                PossibleValues_of_cell(post.pv, cell) = PossibleValues_of_cell(pre.pv, cell)

\* The context in which GroupOverlap examines the k-th group of the
\* refinement's cell, after the groups before it.
OverlapBefore(ctx, refinement, k) ==
    Fold(LAMBDA acc, includer : GroupOverlapIncluder(acc, includer, refinement.removed),
         ctx, SubSeq(Group_groups(refinement.cell), 1, k - 1), 1)

OverlapCursor == Analyzer_cursor_index("GroupOverlap")

\* The step is an analyze() in which GroupOverlap handled its next refinement.
OverlapHandled ==
    /\ Running("refine") /\ panicked' = ""
    /\ analyzer'.refinements_cursors[OverlapCursor] = analyzer.refinements_cursors[OverlapCursor] + 1

OverlapHandledAsClaimed(refinement) ==
    /\ \A k \in 1 .. 3 :
        LetIn(OverlapBefore(AnalysisContext(State), refinement, k),
              LAMBDA pre :
                    LetIn(GroupOverlapIncluder(pre, Group_groups(refinement.cell)[k], refinement.removed),
                          LAMBDA post :
                                OverlapClaim(pre, post, Group_groups(refinement.cell)[k], refinement.removed)))
    /\ LetIn(OverlapBefore(AnalysisContext(State), refinement, 4),
             LAMBDA post :
                Len(post.refinements) > Len(refinements) =>
                    (analyzer'.possible_values = post.pv /\ refinements' = post.refinements))

\* C24: when GroupOverlap handles Refinement(cell, d) and comes to a group G
\* of the cell in which 1 to 3 cells still hold d, all of them in one group
\* H of another type, it removes d from every cell of H outside G that
\* holds it, appends one Refinement with reason GroupOverlap(G, H) per
\* removal, and changes no cell of G.
C24_PointingRemoval ==
    [][OverlapHandled =>
            OverlapHandledAsClaimed(refinements[analyzer.refinements_cursors[OverlapCursor] + 1])]_vars

\* C24 witness: GroupOverlap has removed a digit from cells of a row outside
\* the square whose holders of the digit lie all in that row.
C24_Witness ==
    /\ last # <<>> /\ last[1].op = "analyze" /\ last[1].ret > 1
    /\ refinements[Len(refinements)].reason[1] = "GroupOverlap"
    /\ refinements[Len(refinements)].reason[2].kind = "Square"
    /\ refinements[Len(refinements)].reason[3].kind = "Row"

(* C25 *)

\* The other cells of the group whose candidates are all digits of D
SubsetOthers(values, cell, D, group) ==
    {other \in CellsOf(group) \ {cell} : PossibleValues_of_cell(values, other) \subseteq D}

\* What the claim says of one group of the re-examined cell, whose
\* candidate set is D, between the contexts pre and post.
SubsetClaim(pre, post, cell, D, group) ==
    (/\ Cardinality(D) \in 2 .. 4
     /\ Cardinality(SubsetOthers(pre.pv, cell, D, group)) = Cardinality(D) - 1) =>
        /\ \A other \in CellsOf(group) \ ({cell} \cup SubsetOthers(pre.pv, cell, D, group)) :
            /\ PossibleValues_of_cell(post.pv, other) = PossibleValues_of_cell(pre.pv, other) \ D
            /\ \A digit \in PossibleValues_of_cell(pre.pv, other) \cap D :
                Cardinality({i \in 1 .. Len(Appended(pre, post)) :
                                Appended(pre, post)[i]
                                    = Refinement_new(other, digit,
                                        <<"GroupSubsetInclusion",
                                          {cell} \cup SubsetOthers(pre.pv, cell, D, group), D, group>>)}) = 1
        /\ Len(Appended(pre, post))
            = Cardinality({<<other, digit>> \in CellIndexes \X Digits :
                            /\ digit \in PossibleValues_of_cell(pre.pv, other)
                            /\ digit \notin PossibleValues_of_cell(post.pv, other)})
        /\ \A member \in {cell} \cup SubsetOthers(pre.pv, cell, D, group) :
                PossibleValues_of_cell(post.pv, member) = PossibleValues_of_cell(pre.pv, member)

\* analyze_next_cell on the context of run, with the claim checked on each
\* of the three groups: run is [ctx, ok].
SubsetCheckedGroups(run, cell, D) ==
    Fold(LAMBDA acc, group :
            LetIn(SubsetGroup(acc.ctx, cell, D, group),
                  LAMBDA post : [ctx |-> post,
                                 ok |-> acc.ok /\ SubsetClaim(acc.ctx, post, cell, D, group)]),
         run, Group_groups(cell), 1)

SubsetCheckedCell(run, cell) ==
    IF run.ctx.panic # "" THEN run
    ELSE LetIn(GroupSubsetInclusion_analyze_next_cell(run.ctx, cell),
               LAMBDA post :
                    IF Cardinality(PossibleValues_of_cell(run.ctx.pv, cell)) \notin 2 .. 4
                    THEN [ctx |-> post,
                          ok |-> run.ok /\ (Cardinality(PossibleValues_of_cell(run.ctx.pv, cell)) # 0
                                                => post = run.ctx)]
                    ELSE LetIn(SubsetCheckedGroups(run, cell, PossibleValues_of_cell(run.ctx.pv, cell)),
                               LAMBDA checked : [ctx |-> post, ok |-> checked.ok /\ checked.ctx = post]))

\* The calls of analyze_next_cell that the handling of a refinement makes,
\* in its order, each one checked.
SubsetCheckedRefinement(ctx, refinement) ==
    Fold(LAMBDA acc, group :
            Fold(LAMBDA a, other :
                    IF a.ctx.panic = "" /\ refinement.removed \in PossibleValues_of_cell(a.ctx.pv, other)
                    THEN SubsetCheckedCell(a, other) ELSE a,
                 acc, Group_cells(group), 1),
         SubsetCheckedCell([ctx |-> ctx, ok |-> TRUE], refinement.cell), Group_groups(refinement.cell), 1)

SubsetCursor == Analyzer_cursor_index("GroupSubsetInclusion")

\* The step is an analyze() in which GroupSubsetInclusion handled its next
\* refinement.
SubsetHandled ==
    /\ Running("refine") /\ panicked' = ""
    /\ analyzer'.refinements_cursors[SubsetCursor] = analyzer.refinements_cursors[SubsetCursor] + 1

\* C25: when GroupSubsetInclusion re-examines a cell whose candidate set D
\* has 2, 3 or 4 digits and, in one of the cell's groups, exactly |D| - 1
\* other cells have candidate sets that are subsets of D, it removes every
\* digit of D from every other cell of that group that holds it, appends one
\* Refinement with reason GroupSubsetInclusion(cells, D, group) per removal,
\* and leaves the cells of the subset as they were; a cell with 1 candidate
\* or with more than 4 triggers no removal.
C25_NakedSubsetRemoval ==
    [][SubsetHandled =>
            LetIn(SubsetCheckedRefinement(AnalysisContext(State),
                        refinements[analyzer.refinements_cursors[SubsetCursor] + 1]),
                  LAMBDA checked :
                        /\ checked.ok
                        /\ analyzer'.possible_values = checked.ctx.pv
                        /\ refinements' = checked.ctx.refinements)]_vars

\* C25 witness: GroupSubsetInclusion has removed the digits of a pair from
\* another cell of the pair's group.
C25_Witness ==
    /\ last # <<>> /\ last[1].op = "analyze" /\ last[1].ret > 0
    /\ refinements[Len(refinements)].reason[1] = "GroupSubsetInclusion"
    /\ Cardinality(refinements[Len(refinements)].reason[2]) = 2
    /\ refinements[Len(refinements)].cell \notin refinements[Len(refinements)].reason[2]

(* C26 *)

GridSetDigitCalls == {i \in 1 .. Len(last) : last[i].op = "Grid::set_digit"}

\* C26: after any sequence of Grid::set_digit calls, setting or clearing
\* cells, number_solved() is the number of cells that hold a digit;
\* set_digit returns what the cell held before, changes the count by +1 only
\* when an empty cell is filled and by -1 only when a filled cell is
\* cleared, and changes no other cell.
C26_SolvedCountsCells ==
    /\ Grid_number_solved(grid) = Cardinality(Givens(grid))
    /\ \A i \in GridSetDigitCalls :
        /\ last[i].ret = Grid_get_digit(last[i].before, last[i].cell)
        /\ Grid_get_digit(grid, last[i].cell) = last[i].digit
        /\ \A other \in CellIndexes \ {last[i].cell} :
                Grid_get_digit(grid, other) = Grid_get_digit(last[i].before, other)
        /\ Grid_number_solved(grid) - Grid_number_solved(last[i].before)
            = (CASE last[i].ret = None /\ last[i].digit # None -> 1
                 [] last[i].ret # None /\ last[i].digit = None -> 0 - 1
                 [] OTHER -> 0)

\* C26 witness: set_digit has written a digit over another digit, with
\* another cell filled and the count as it was.
C26_Witness ==
    \E i \in GridSetDigitCalls :
        /\ last[i].ret # None /\ last[i].digit # None /\ last[i].ret # last[i].digit
        /\ Grid_number_solved(grid) = 2
        /\ Grid_number_solved(last[i].before) = 2

(* C27 *)

GetConflictingCalls == {i \in 1 .. Len(last) : last[i].op = "Grid::get_conflicting"}

\* The cells in the order of the scan: the column of the cell, its row, its
\* square, each in the order of Group::cells.
ScanOrder(cell) ==
    Group_cells(Group_column(cell)) \o Group_cells(Group_row(cell)) \o Group_cells(Group_square(cell))

\* The places of the scan at which another cell holds the digit
ScanHits(g, cell, digit) ==
    {k \in 1 .. Len(ScanOrder(cell)) :
        ScanOrder(cell)[k] # cell /\ Grid_get_digit(g, ScanOrder(cell)[k]) = digit}

\* C27: Grid::get_conflicting(cell, digit) answers None exactly when no
\* other cell of the column, row or square of the cell holds the digit;
\* otherwise it answers the first such cell of the scan of the column, then
\* the row, then the square, each in stored cell order, and never the cell
\* itself.
C27_FirstConflictingCell ==
    \A i \in GetConflictingCalls :
        /\ last[i].ret = NoCell
            <=> (\A peer \in Peers(last[i].cell) : Grid_get_digit(last[i].before, peer) # last[i].digit)
        /\ last[i].ret # NoCell =>
            /\ ScanHits(last[i].before, last[i].cell, last[i].digit) # {}
            /\ last[i].ret = ScanOrder(last[i].cell)[
                    CHOOSE k \in ScanHits(last[i].before, last[i].cell, last[i].digit) :
                        \A j \in ScanHits(last[i].before, last[i].cell, last[i].digit) : k <= j]
        /\ last[i].ret # last[i].cell

\* C27 witness: the digit is held by the cell itself, by a cell of its row
\* and by a lower cell of its column, and the answer is the cell of the
\* column.
C27_Witness ==
    \E i \in GetConflictingCalls :
        /\ last[i].cell = 0 /\ last[i].ret = 9
        /\ Grid_get_digit(grid, 0) = last[i].digit
        /\ Grid_get_digit(grid, 1) = last[i].digit
        /\ Grid_get_digit(grid, 27) = last[i].digit

----------------------------------------------------------------------------
(* C28 *)

\* What a Placer step (an iteration of place(), a Solver::set_digit call) may
\* not touch, and what an Analyzer step (an iteration of refine()) may not
\* touch.
AnalyzerSideUnchanged ==
    /\ refinements' = refinements
    /\ analyzer'.possible_values = analyzer.possible_values
    /\ analyzer'.placements_cursors = analyzer.placements_cursors
    /\ analyzer'.refinements_cursors = analyzer.refinements_cursors

PlacerSideUnchanged ==
    /\ placements' = placements
    /\ grid' = grid
    /\ placer'.possible_values = placer.possible_values
    /\ placer'.refinements = placer.refinements

\* C28: only the iterations of refine() append to the refinement journal and
\* only the iterations of place() and Solver::set_digit append to the
\* placement journal; place() and Solver::set_digit leave the refinement
\* journal, the Analyzer's PossibleValues and the ten Analyzer cursors
\* unchanged; refine() leaves the placement journal, the Grid, the Placer's
\* PossibleValues and the Placer's cursor unchanged.
C28_SingleWriter ==
    [][/\ (Running("place") \/ SetDigitStep) => AnalyzerSideUnchanged
       /\ Running("refine") => PlacerSideUnchanged
       /\ refinements' # refinements => Running("refine")
       /\ placements' # placements => (Running("place") \/ SetDigitStep)]_vars

\* C28 witness: a place() call that returned after appending a placement
\* while the refinement journal, which refine() had filled before, and the
\* Analyzer stayed as they were at its call.
C28_Witness ==
    \E i \in Returned("place", "Ok") :
        /\ Len(placements) = Len(last[i].entry.placements) + 1
        /\ Len(refinements) > 0
        /\ refinements = last[i].entry.refinements
        /\ analyzer = last[i].entry.analyzer
        /\ placer.refinements > last[i].entry.placer.refinements

----------------------------------------------------------------------------
(* C29 *)

\* Completed Sudokus: FullDigit with two of its digits exchanged
ExchangedDigits == {<<1, 1>>, <<8, 9>>, <<6, 7>>, <<3, 4>>}
Exchanged(pair, digit) ==
    IF digit = pair[1] THEN pair[2] ELSE IF digit = pair[2] THEN pair[1] ELSE digit
CompletedSudokus ==
    {[cell \in CellIndexes |-> Exchanged(pair, FullDigit(cell))] : pair \in ExchangedDigits}

\* S is a valid completion of the givens: each group holds each digit once
\* and every given cell holds its given digit
ValidCompletion(S, givens) ==
    /\ \A g \in GroupIndexes : {S[cell] : cell \in GroupCellSets[g]} = Digits
    /\ \A i \in 1 .. Len(givens) : S[givens[i][1]] = givens[i][2]

\* The input grids of SpecSound, each with its valid completions
SoundCases ==
    {case \in [givens : SoundInputs, S : CompletedSudokus] : ValidCompletion(case.S, case.givens)}

\* The Solver was built from these givens: Solver::new appends one placement
\* for each, in cell order, before anything else is appended
BuiltFrom(givens) ==
    IF givens = <<>> THEN placements = <<>>
    ELSE /\ Len(placements) >= Len(givens)
         /\ \A i \in 1 .. Len(givens) : placements[i] = Placement_new(givens[i][1], givens[i][2])

SoundFor(S) ==
    /\ \A cell \in CellIndexes :
        /\ S[cell] \in PossibleValues_of_cell(analyzer.possible_values, cell)
        /\ S[cell] \in PossibleValues_of_cell(placer.possible_values, cell)
    /\ \A i \in 1 .. Len(placements) : placements[i].digit = S[placements[i].cell]

\* C29: for an input grid with a valid completion S, in every state reached
\* from Solver::new(grid) by solve(), place() and refine() calls, S[c] is a
\* candidate of every cell c in the PossibleValues of the Analyzer and of the
\* Placer, every Placement(c, d) of the journal has d = S[c], and nothing
\* has panicked (no resolve of a non-candidate, no decrement of a zero
\* counter, no empty candidate set in the Placer).
C29_Sound ==
    /\ \E case \in SoundCases : BuiltFrom(case.givens)
    /\ \A case \in SoundCases : BuiltFrom(case.givens) => SoundFor(case.S)
    /\ panicked = ""

\* C29 witness: an input with four completions from which GroupInclusion
\* has removed candidates and for which the Placer has deduced a placement.
C29_Witness ==
    /\ BuiltFrom(SoundHiddenSingleGivens)
    /\ Cardinality({case \in SoundCases : case.givens = SoundHiddenSingleGivens}) = 4
    /\ \E i \in 1 .. Len(refinements) : refinements[i].reason[1] = "GroupInclusion"
    /\ Len(placements) > Len(SoundHiddenSingleGivens)
    /\ Idle

----------------------------------------------------------------------------
(* C30 *)

\* Every row, column and square of the grid holds each digit exactly once
CompletedSudoku(g) ==
    \A group \in GroupIndexes :
        /\ {Grid_get_digit(g, cell) : cell \in GroupCellSets[group]} = Digits
        /\ \A digit \in Digits :
            Cardinality({cell \in GroupCellSets[group] : Grid_get_digit(g, cell) = digit}) = 1

GivensKept(g, givens) ==
    \A i \in 1 .. Len(givens) : Grid_get_digit(g, givens[i][1]) = givens[i][2]

\* C30: when solve() returns Ok for an input grid that has a valid
\* completion, the Grid is a valid completed Sudoku: every row, column and
\* square holds each digit exactly once, and every given cell still holds its
\* given digit.
C30_SolvedGridValid ==
    \A i \in Returned("solve", "Ok") :
        \A case \in SoundCases :
            BuiltFrom(case.givens) => (CompletedSudoku(grid) /\ GivensKept(grid, case.givens))

\* C30 witness: solve() called on the grid with 40 givens and 41 empty cells
\* returned Ok.
C30_Witness ==
    \E i \in Returned("solve", "Ok") :
        /\ BuiltFrom(SoundHalfGivens)
        /\ \E case \in SoundCases : case.givens = SoundHalfGivens
        /\ Len(last[i].entry.placements) = Len(SoundHalfGivens)
        /\ Grid_number_solved(last[i].entry.grid) = 40

----------------------------------------------------------------------------
(* C31 *)

\* The (cell, digit) pairs the refinement journal records as removed, and
\* those the Analyzer no longer holds as candidates
RecordedRemovals == {<<refinements[i].cell, refinements[i].removed>> : i \in 1 .. Len(refinements)}
AnalyzerRemovals ==
    {pair \in CellIndexes \X Digits :
        pair[2] \notin PossibleValues_of_cell(analyzer.possible_values, pair[1])}

\* C31: in every reachable state a digit d is absent from the Analyzer's
\* candidates of a cell c exactly when the refinement journal holds a
\* Refinement for (c, d), and the journal never holds two refinements with
\* the same cell and removed digit, so that it is never longer than 81 * 9.
C31_JournalRecordsCandidates ==
    /\ RecordedRemovals = AnalyzerRemovals
    /\ Cardinality(RecordedRemovals) = Len(refinements)
    /\ Len(refinements) <= NUMBER_CELLS * DIMENSION

\* C31 witness: the Analyzer is done after the two exclusions and at least
\* one of the three other analyses have removed candidates.
C31_Witness ==
    /\ Idle
    /\ Analyzer_is_done(State)
    /\ {"CellExclusion", "GroupExclusion"} \subseteq {refinements[i].reason[1] : i \in 1 .. Len(refinements)}
    /\ Cardinality({refinements[i].reason[1] : i \in 1 .. Len(refinements)}) >= 3

----------------------------------------------------------------------------
(* C32 *)

PlacedCells == {placements[i].cell : i \in 1 .. Len(placements)}

\* The grid that holds the digit of each placement of the journal and nothing
\* else
GridMirrorsJournal ==
    /\ Cardinality(PlacedCells) = Len(placements)
    /\ \A i \in 1 .. Len(placements) : Grid_get_digit(grid, placements[i].cell) = placements[i].digit
    /\ \A cell \in CellIndexes : Grid_get_digit(grid, cell) # None => cell \in PlacedCells
    /\ Grid_number_solved(grid) = Len(placements)

\* C32: in a run of Solver::new on a grid with a valid completion followed
\* by solve(), place() and refine() calls, whenever an operation of the Solver
\* returns, the placement journal holds at most one Placement per cell,
\* Grid.get_digit(c) = d exactly when Placement(c, d) is in the journal, and
\* number_solved() is the length of the journal.
C32_GridMirrorsJournal ==
    (last # <<>> /\ \E case \in SoundCases : BuiltFrom(case.givens)) => GridMirrorsJournal

\* C32 witness: place() returned a deduced placement, the journal being
\* longer than the givens.
C32_Witness ==
    /\ BuiltFrom(SoundHiddenSingleGivens)
    /\ \E case \in SoundCases : case.givens = SoundHiddenSingleGivens
    /\ Returned("place", "Ok") # {}
    /\ Len(placements) > Len(SoundHiddenSingleGivens)

----------------------------------------------------------------------------
(* C33 *)

CellExclusionCursor == Analyzer_cursor_index("CellExclusion")

\* The step is an analyze() whose first analysis, CellExclusion, has a
\* placement to handle.
CellExclusionRuns ==
    /\ Running("refine")
    /\ ~Analyzer_is_done(State)
    /\ analyzer.placements_cursors[CellExclusionCursor] < Len(placements)

\* What the claim says of the context `post` that CellExclusion made of `pre`
CellExclusionClaim(pre, post, placement) ==
    /\ post.panic = ""
    /\ PossibleValues_of_cell(post.pv, placement.cell) = {placement.digit}
    /\ post.refinements = pre.refinements \o
            [i \in 1 .. Cardinality(PossibleValues_of_cell(pre.pv, placement.cell) \ {placement.digit}) |->
                Refinement_new(placement.cell,
                               Ascending(PossibleValues_of_cell(pre.pv, placement.cell) \ {placement.digit})[i],
                               <<"CellExclusion", placement.digit>>)]
    /\ \A other \in CellIndexes \ {placement.cell} :
            PossibleValues_of_cell(post.pv, other) = PossibleValues_of_cell(pre.pv, other)
    /\ PossibleValues_of_cell(pre.pv, placement.cell) = {placement.digit}
            => post.refinements = pre.refinements

\* The step leaves what CellExclusion made, if it made anything (analyze()
\* goes on to the next analysis otherwise)
CellExclusionStored(post) ==
    /\ post.panic # "" => panicked' = post.panic
    /\ (post.panic = "" /\ post.refinements # refinements) =>
            /\ panicked' = ""
            /\ analyzer'.possible_values = post.pv
            /\ refinements' = post.refinements
            /\ analyzer'.placements_cursors[CellExclusionCursor]
                    = analyzer.placements_cursors[CellExclusionCursor] + 1

CellExclusionAsClaimed(placement) ==
    LetIn(CellExclusion_analyze_next_placement(AnalysisContext(State), placement),
          LAMBDA post :
                /\ CellExclusionClaim(AnalysisContext(State), post, placement)
                /\ CellExclusionStored(post))

CellExclusionAsCoded(placement) ==
    LetIn(CellExclusion_analyze_next_placement(AnalysisContext(State), placement),
          LAMBDA post :
                /\ placement.digit \in PossibleValues_of_cell(analyzer.possible_values, placement.cell)
                        => CellExclusionClaim(AnalysisContext(State), post, placement)
                /\ placement.digit \notin PossibleValues_of_cell(analyzer.possible_values, placement.cell)
                        => (post.panic = "Incoherent request" /\ post.pv = analyzer.possible_values
                            /\ post.refinements = refinements)
                /\ CellExclusionStored(post))

\* C33: CellExclusion, on Placement(cell, digit), leaves {digit} as the
\* Analyzer's candidates of the cell, appends exactly one
\* Refinement(cell, r, CellExclusion(digit)) for each other digit r that was
\* a candidate of the cell, in ascending order, changes the candidates of no
\* other cell, and appends nothing when the cell held only the digit.
C33_CellExclusion ==
    [][CellExclusionRuns =>
            CellExclusionAsClaimed(placements[analyzer.placements_cursors[CellExclusionCursor] + 1])]_vars

\* What holds instead: the claim for a placement whose digit is a candidate
\* of the cell in the Analyzer, and a failed assertion of resolve for one
\* whose digit is not.
CellExclusionOfCandidate ==
    [][CellExclusionRuns =>
            CellExclusionAsCoded(placements[analyzer.placements_cursors[CellExclusionCursor] + 1])]_vars

\* The Analyzer has aborted in CellExclusion on the placement of a
\* Solver::set_digit call made after the deductions.
CellExclusionAbortReached ==
    ~(/\ panicked = "Incoherent request"
      /\ pc # <<>> /\ pc[Len(pc)] = "refine"
      /\ analyzer.placements_cursors[CellExclusionCursor] < Len(placements)
      /\ Len(refinements) > 0)

----------------------------------------------------------------------------
(* C34 *)

GroupExclusionCursor == Analyzer_cursor_index("GroupExclusion")

\* The step is an analyze() in which GroupExclusion handled its next
\* placement.
GroupExclusionHandled ==
    /\ Running("refine") /\ panicked' = ""
    /\ analyzer'.placements_cursors[GroupExclusionCursor]
            = analyzer.placements_cursors[GroupExclusionCursor] + 1

\* The first of the column, the row and the square of `cell` that holds `other`
FirstSharedGroup(cell, other) ==
    IF CellIndex_column(other) = CellIndex_column(cell) THEN Column(CellIndex_column(cell))
    ELSE IF CellIndex_row(other) = CellIndex_row(cell) THEN Row(CellIndex_row(cell))
    ELSE Square(CellIndex_square(cell))

\* What the claim says of the context `post` that GroupExclusion made of `pre`
GroupExclusionClaim(pre, post, placement) ==
    /\ post.panic = ""
    /\ \A other \in Peers(placement.cell) :
        /\ PossibleValues_of_cell(post.pv, other) = PossibleValues_of_cell(pre.pv, other) \ {placement.digit}
        /\ placement.digit \in PossibleValues_of_cell(pre.pv, other) =>
                Cardinality({i \in 1 .. Len(Appended(pre, post)) :
                                Appended(pre, post)[i] =
                                    Refinement_new(other, placement.digit,
                                                   <<"GroupExclusion", placement.cell,
                                                     FirstSharedGroup(placement.cell, other)>>)}) = 1
    /\ Len(Appended(pre, post))
            = Cardinality({other \in Peers(placement.cell) :
                                placement.digit \in PossibleValues_of_cell(pre.pv, other)})
    /\ \A other \in CellIndexes \ Peers(placement.cell) :
            PossibleValues_of_cell(post.pv, other) = PossibleValues_of_cell(pre.pv, other)
    /\ \A other \in Peers(placement.cell) : placement.digit \notin PossibleValues_of_cell(post.pv, other)

GroupExclusionAsClaimed(placement) ==
    LetIn(GroupExclusion_analyze_next_placement(AnalysisContext(State), placement),
          LAMBDA post :
                /\ GroupExclusionClaim(AnalysisContext(State), post, placement)
                /\ post.refinements # refinements =>
                        (analyzer'.possible_values = post.pv /\ refinements' = post.refinements))

\* C34: GroupExclusion, on Placement(cell, digit), removes the digit from
\* every other cell of the column, the row and the square of the cell that
\* holds it, appends exactly one Refinement(other, digit,
\* GroupExclusion(cell, group)) per removal, a peer shared by two groups
\* being refined once, under the first of them in the order column, row,
\* square; the candidates of the cell itself are untouched and afterwards no
\* peer of the cell has the digit as a candidate.
C34_GroupExclusion ==
    [][GroupExclusionHandled =>
            GroupExclusionAsClaimed(placements[analyzer.placements_cursors[GroupExclusionCursor] + 1])]_vars

\* C34 witness: GroupExclusion has removed the digit of a placement from the
\* twenty peers of its cell, the square being named for four of them.
C34_Witness ==
    /\ last # <<>> /\ last[1].op = "analyze" /\ last[1].ret = 20
    /\ refinements[Len(refinements)].reason[1] = "GroupExclusion"
    /\ Cardinality({i \in 1 .. Len(refinements) :
                        /\ refinements[i].reason[1] = "GroupExclusion"
                        /\ refinements[i].reason[2] = refinements[Len(refinements)].reason[2]
                        /\ refinements[i].reason[3].kind = "Square"}) = 4

----------------------------------------------------------------------------
(* C35 *)

GroupInclusionCursor == Analyzer_cursor_index("GroupInclusion")

\* The step is an analyze() in which GroupInclusion handled its next
\* refinement.
GroupInclusionHandled ==
    /\ Running("refine") /\ panicked' = ""
    /\ analyzer'.refinements_cursors[GroupInclusionCursor]
            = analyzer.refinements_cursors[GroupInclusionCursor] + 1

\* The cells of the group that hold the digit
HoldersIn(values, group, digit) ==
    {c \in CellsOf(group) : digit \in PossibleValues_of_cell(values, c)}

\* The groups of the cell whose counter of the digit is 1
SingleGroups(values, cell, digit) ==
    {k \in 1 .. 3 : PossibleValues_of_group(values, Group_groups(cell)[k])[digit] = 1}

\* What the claim says of the context `post` that GroupInclusion made of `pre`
GroupInclusionClaim(pre, post, cell, digit) ==
    /\ post.panic = ""
    /\ \A k \in SingleGroups(pre.pv, cell, digit) :
        /\ Cardinality(HoldersIn(pre.pv, Group_groups(cell)[k], digit)) = 1
        /\ \A unique \in HoldersIn(pre.pv, Group_groups(cell)[k], digit) :
            /\ PossibleValues_of_cell(post.pv, unique) = {digit}
            /\ \A r \in PossibleValues_of_cell(pre.pv, unique) \ {digit} :
                \E i \in 1 .. Len(Appended(pre, post)) :
                    /\ Appended(pre, post)[i].cell = unique
                    /\ Appended(pre, post)[i].removed = r
                    /\ \A j \in 1 .. Len(Appended(pre, post)) :
                            (Appended(pre, post)[j].cell = unique /\ Appended(pre, post)[j].removed = r) => j = i
    /\ \A i \in 1 .. Len(Appended(pre, post)) :
        \E k \in SingleGroups(pre.pv, cell, digit) :
            /\ Appended(pre, post)[i].cell \in HoldersIn(pre.pv, Group_groups(cell)[k], digit)
            /\ Appended(pre, post)[i].removed \in PossibleValues_of_cell(pre.pv, Appended(pre, post)[i].cell) \ {digit}
            /\ Appended(pre, post)[i].reason = <<"GroupInclusion", digit, Group_groups(cell)[k]>>
            /\ \A earlier \in SingleGroups(pre.pv, cell, digit) :
                    Appended(pre, post)[i].cell \in HoldersIn(pre.pv, Group_groups(cell)[earlier], digit)
                        => k <= earlier
    /\ \A other \in CellIndexes :
            (\A k \in SingleGroups(pre.pv, cell, digit) :
                other \notin HoldersIn(pre.pv, Group_groups(cell)[k], digit))
            => PossibleValues_of_cell(post.pv, other) = PossibleValues_of_cell(pre.pv, other)
    /\ SingleGroups(pre.pv, cell, digit) = {} => (post.pv = pre.pv /\ post.refinements = pre.refinements)

GroupInclusionAsClaimed(refinement) ==
    LetIn(GroupInclusion_analyze_next_refinement(AnalysisContext(State), refinement),
          LAMBDA post :
                /\ GroupInclusionClaim(AnalysisContext(State), post, refinement.cell, refinement.removed)
                /\ post.refinements # refinements =>
                        (analyzer'.possible_values = post.pv /\ refinements' = post.refinements)
                /\ placements' = placements)

\* C35: GroupInclusion, on Refinement(cell, d, _): for each of the three
\* groups of the cell whose counter of d is exactly 1, the unique cell of the
\* group that still holds d is resolved to {d} and one Refinement(that cell,
\* r, GroupInclusion(d, group)) is appended for each digit r removed from it;
\* the groups whose counter of d is not 1 cause no change; no Placement is
\* appended.
C35_GroupInclusion ==
    [][GroupInclusionHandled =>
            GroupInclusionAsClaimed(refinements[analyzer.refinements_cursors[GroupInclusionCursor] + 1])]_vars

\* C35 witness: GroupInclusion has resolved a cell found through its row and
\* appended a refinement for each of its eight other digits.
C35_Witness ==
    /\ last # <<>> /\ last[1].op = "analyze" /\ last[1].ret = DIMENSION - 1
    /\ refinements[Len(refinements)].reason[1] = "GroupInclusion"
    /\ refinements[Len(refinements)].reason[3] = Group_row(refinements[Len(refinements)].cell)
    /\ PossibleValues_of_cell(analyzer.possible_values, refinements[Len(refinements)].cell)
            = {refinements[Len(refinements)].reason[2]}

----------------------------------------------------------------------------
(* C36 *)

\* The loop of refine() is about to call analyze(): the Analyzer is not done
AnalyzeDue == pc # <<>> /\ pc[Len(pc)] = "refine" /\ ~Analyzer_is_done(State)

\* The step is an analyze() that returned 0
AnalyzeReturnedZero ==
    /\ Running("refine") /\ ~Analyzer_is_done(State)
    /\ last' = <<[op |-> "analyze", ret |-> 0]>>

\* The position after one event is handled, if one is pending
AdvancedByOne(position, journal) == IF position < Len(journal) THEN position + 1 ELSE position

\* analyze() returns 0 only without appending anything, and then each of the
\* ten cursors that was behind its journal has advanced by exactly one;
\* analyze() calls stop being due only by an appended refinement or by the
\* Analyzer being done.
AnalyzeZeroAdvancesCursors ==
    [][/\ AnalyzeReturnedZero =>
            /\ refinements' = refinements
            /\ \A i \in CursorIndexes :
                /\ analyzer'.placements_cursors[i] = AdvancedByOne(analyzer.placements_cursors[i], placements)
                /\ analyzer'.refinements_cursors[i] = AdvancedByOne(analyzer.refinements_cursors[i], refinements)
       /\ (Running("refine") /\ ~Analyzer_is_done(State) /\ refinements' # refinements) =>
            (panicked' = "" => (last' # <<>> /\ last'[1].op = "analyze" /\ last'[1].ret > 0))
       /\ (AnalyzeDue /\ ~AnalyzeDue') =>
            (Len(refinements') > Len(refinements) \/ Analyzer_is_done(State)')]_vars

\* C36: analyze() returns 0 only without appending anything, and in that
\* case every one of the ten cursor positions of the Analyzer that was behind
\* its journal at the start of the call has advanced by exactly one; so from
\* any state where the Analyzer is not done, finitely many analyze() calls
\* either append a refinement or make the Analyzer done.
C36_AnalyzeProgress ==
    /\ AnalyzeZeroAdvancesCursors
    /\ AnalyzeDue ~> ~AnalyzeDue

\* The analyze() calls end: by an appended refinement, by the Analyzer being
\* done, or by a failed assertion.
AnalyzeProgressOrAbort ==
    /\ AnalyzeZeroAdvancesCursors
    /\ AnalyzeDue ~> (~AnalyzeDue \/ panicked # "")

----------------------------------------------------------------------------
(* C37 *)

\* The groups and digits of which one cell is left in the Analyzer's values
HiddenSingles ==
    {single \in GroupIndexes \X Digits :
        analyzer.possible_values.group_counters[GroupCounterIndex[single[1]]][single[2]] = 1}

\* C37: for an input grid with a valid completion, whenever the Analyzer is
\* done, for every group and digit whose counter in the Analyzer's
\* PossibleValues is exactly 1, the unique cell of the group that still holds
\* the digit has exactly that digit as its candidates.
C37_HiddenSinglesComplete ==
    ((\E case \in SoundCases : BuiltFrom(case.givens)) /\ Analyzer_is_done(State)) =>
        \A single \in HiddenSingles :
            /\ Cardinality({c \in GroupCellSets[single[1]] :
                                single[2] \in PossibleValues_of_cell(analyzer.possible_values, c)}) = 1
            /\ \A c \in GroupCellSets[single[1]] :
                    single[2] \in PossibleValues_of_cell(analyzer.possible_values, c)
                        => PossibleValues_of_cell(analyzer.possible_values, c) = {single[2]}

\* C37 witness: the Analyzer is done on a grid that is not full, after
\* GroupInclusion has resolved a cell, and some counters are 1.
C37_Witness ==
    /\ BuiltFrom(SoundSquareSingleGivens)
    /\ \E case \in SoundCases : case.givens = SoundSquareSingleGivens
    /\ Analyzer_is_done(State)
    /\ \E i \in 1 .. Len(refinements) :
            refinements[i].reason[1] = "GroupInclusion" /\ refinements[i].reason[3].kind = "Square"
    /\ HiddenSingles # {}
    /\ Grid_number_solved(grid) < NUMBER_CELLS

----------------------------------------------------------------------------
(* C38 *)

\* C38: in every state reached through the operations of the Solver, for
\* analyses i before j in the order of ALL_ANALYSES, the position of the
\* placement cursor of i is at least that of j, and the position of the
\* refinement cursor of i is at least that of j.
C38_CheapestFirst ==
    \A i \in 1 .. NUMBER_ANALYSIS, j \in 1 .. NUMBER_ANALYSIS :
        i < j =>
            /\ analyzer.placements_cursors[Analyzer_cursor_index(ALL_ANALYSES[i])]
                    >= analyzer.placements_cursors[Analyzer_cursor_index(ALL_ANALYSES[j])]
            /\ analyzer.refinements_cursors[Analyzer_cursor_index(ALL_ANALYSES[i])]
                    >= analyzer.refinements_cursors[Analyzer_cursor_index(ALL_ANALYSES[j])]

\* C38 witness: CellExclusion has handled two placements of which
\* GroupExclusion has handled one, and the refinement cursors of the first
\* and of the last analysis are apart.
C38_Witness ==
    /\ analyzer.placements_cursors[Analyzer_cursor_index("CellExclusion")] = 2
    /\ analyzer.placements_cursors[Analyzer_cursor_index("GroupExclusion")] = 1
    /\ analyzer.refinements_cursors[Analyzer_cursor_index("CellExclusion")]
            > analyzer.refinements_cursors[Analyzer_cursor_index("GroupSubsetInclusion")]

----------------------------------------------------------------------------
(* C39 *)

CounterCalls(op) == {i \in 1 .. Len(last) : last[i].op = op}

\* C39: every count of a DigitCounter stays within 0 .. 9, the value of
\* full(); decrement on a count of 0 aborts, and increment aborts rather than
\* let a count go past the maximum, so that no sequence of increment and
\* decrement calls from full() or from the all-zero counter yields a count
\* above 9.
C39_CounterBounds ==
    /\ \A digit \in Digits : DigitCounter_count(tally, digit) \in 0 .. DIMENSION
    /\ \A i \in CounterCalls("DigitCounter::decrement") :
            DigitCounter_count(last[i].before, last[i].digit) = 0 => panicked # ""
    /\ \A i \in CounterCalls("DigitCounter::increment") :
            DigitCounter_count(last[i].before, last[i].digit) = DIMENSION => panicked # ""

\* What holds instead: decrement aborts on 0 and on nothing else, increment
\* aborts on 8 and on nothing else, and the counts never go below 0.
CounterAsCoded ==
    /\ \A digit \in Digits : DigitCounter_count(tally, digit) >= 0
    /\ \A i \in CounterCalls("DigitCounter::decrement") :
            /\ DigitCounter_count(last[i].before, last[i].digit) = 0 <=> panicked # ""
            /\ panicked = "" => tally = [last[i].before EXCEPT ![last[i].digit] = @ - 1]
    /\ \A i \in CounterCalls("DigitCounter::increment") :
            /\ DigitCounter_count(last[i].before, last[i].digit) = DIMENSION - 1 <=> panicked # ""
            /\ panicked = "" => tally = [last[i].before EXCEPT ![last[i].digit] = @ + 1]

\* A count above 9 is reached, and one that started from 0 stops at 8.
CountAboveMaximumReached == \A digit \in Digits : DigitCounter_count(tally, digit) <= DIMENSION
IncrementAbortReached ==
    ~(\E i \in CounterCalls("DigitCounter::increment") :
            panicked # "" /\ DigitCounter_count(tally, last[i].digit) = DIMENSION - 1)

----------------------------------------------------------------------------
(* C40 *)

\* The line starts with a digit or a dot
StartsProblem(line) == line # <<>> /\ (is_ascii_digit(line[1]) \/ line[1] = ".")

\* The lines from the first one that starts a problem
RECURSIVE ProblemLines(_)
ProblemLines(lines) ==
    IF lines = <<>> \/ StartsProblem(Head(lines)) THEN lines ELSE ProblemLines(Tail(lines))

\* The numbers of the range taken with the step, of `count` problems
NumbersDue(range, step, count) ==
    {n \in 0 .. count - 1 :
        n >= range.start /\ n < range.end /\ (n - range.start) % step = 0}

\* The k-th item yielded is the k-th number due with the grid of its line
YieldedAsClaimed(it, problems) ==
    \A k \in 1 .. Len(it.yielded) :
        LET n == it.range.start + (k - 1) * it.step
        IN /\ n \in NumbersDue(it.range, it.step, Len(problems))
           /\ it.yielded[k] = <<n, parse_grid(problems[n + 1]).grid>>

\* C40: of a file whose lines are not empty, parse_csv drops the leading
\* lines that start with neither a digit nor a dot and yields the lines from
\* there on, numbered from 0, one problem each for every number of the range
\* that the step selects: what was yielded so far are the first of them, and
\* once the iterator has ended all of them were yielded.  In particular the
\* first line of a file without a header is problem 0.
C40_CsvSkipsOnlyHeader ==
    (\A i \in 1 .. Len(csv.lines) : csv.lines[i] # <<>>) =>
        LET problems == ProblemLines(csv.lines)
        IN /\ YieldedAsClaimed(csv, problems)
           /\ csv.ended =>
                Len(csv.yielded) = Cardinality(NumbersDue(csv.range, csv.step, Len(problems)))
           /\ (/\ csv.ended
               /\ csv.lines # <<>> /\ StartsProblem(csv.lines[1])
               /\ csv.range.start = 0 /\ csv.range.end > 0)
                => /\ csv.yielded # <<>>
                   /\ csv.yielded[1] = <<0, parse_grid(csv.lines[1]).grid>>

\* What holds instead: the predicate of skip_while is true of every line, so
\* that no line is ever yielded: the iterator ends empty, or aborts on the
\* first empty line when the range is not empty, and Problem::grid aborts.
CsvAsCoded ==
    /\ csv.yielded = <<>>
    /\ \A i \in 1 .. Len(last) :
        /\ last[i].op \in {"next", "grid"} => last[i].ret = <<>>
        /\ last[i].op = "next" =>
            IF last[i].before.range.start < last[i].before.range.end
                    /\ \E l \in 1 .. Len(csv.lines) : csv.lines[l] = <<>>
            THEN panicked = "index out of bounds: the len is 0 but the index is 0"
            ELSE panicked = "" /\ csv.ended
        /\ last[i].op = "grid" => panicked # ""

\* The cases are reached: a file that starts with a problem, or with a header
\* and then two problems, is read to its end in a range that holds them.
HeaderlessFileReadReached ==
    ~(/\ csv.ended /\ panicked = ""
      /\ csv.lines = <<<<"5">>, <<"7">>>>
      /\ csv.range = [start |-> 0, end |-> 2] /\ csv.step = 1)
HeaderFileReadReached ==
    ~(/\ csv.ended /\ panicked = ""
      /\ csv.lines = <<<<"p">>, <<"5">>, <<".">>>>
      /\ csv.range = [start |-> 0, end |-> 3] /\ csv.step = 2)

====
